---- MODULE Spec2Model ----
(***************************************************************************)
(* Model of service-perf-metric: the log extraction (src/src/extract.py),  *)
(* the statistics (src/src/report.py) and the report pipeline (src/spm.py).*)
(*                                                                         *)
(* Several specifications share the variables below; each one drives the   *)
(* variables of one component and leaves the others at their initial value.*)
(*   SpecStats    the pure statistics functions of report.py               *)
(*   SpecParse    parse_log_lines of extract.py                            *)
(*   SpecCombine  _combine_summaries of spm.py                             *)
(*   Spec         the commands: generate, clean (spm.py), extract --dir    *)
(*   SpecReport   main of report.py                                        *)
(*   SpecValidate _validate_dataset_requirements of webapp.py              *)
(*   SpecRoundTrip process_dir writing summary.csv, the combiner reading it*)
(*   SpecMerge    merge_data_folders of spm.py                             *)
(*   SpecDashboard the dashboard page and the bar-data endpoint of webapp.py*)
(***************************************************************************)
EXTENDS Integers, Sequences, FiniteSets, TLC

VARIABLES
    vals,       \* report.py: the list handed to _avg/_min/_max/_median
    stat,       \* report.py: the last call, [fn |-> name, arg |-> list, out |-> result]
    lines,      \* extract.py: the lines handed to parse_log_lines
    entries,    \* extract.py: the list parse_log_lines returned
    summary_map,\* spm.py: the dict label -> summary path, as its keys in insertion order
    summaries,  \* the file at each label's summary path
    combined,   \* the file at the combined output path
    data,       \* the data root: exists, and what each entry under it is
    logs,       \* the files of each dataset's PerformanceLog directory
    log_summary,\* the file summary.csv in each PerformanceLog directory
    dirs,       \* the directories that exist at and under the result directory
    interrupted,\* whether the combined file is what an interrupted write left
    run,        \* the last command run and how it ended
    top_summary,\* the file result/summary.csv that report.py reads
    stats_out,  \* report.py: its exit status and the two files it writes
    melted,     \* webapp.py: the records handed to the validator
    verdict,    \* webapp.py: what the validator returned
    disk,       \* the text of summary.csv in each PerformanceLog directory
    written,    \* extract.py: all_entries of the last process_dir call that wrote it
    merge,      \* spm.py merge: the sources, the destination and how the merge ended
    results,    \* webapp.py: summary.csv and the statistics files of each dataset
    page,       \* webapp.py: what the last request was answered with
    pc          \* position of the running operation

stats_vars == <<vals, stat>>
parse_vars == <<lines, entries>>
combine_vars == <<summary_map, summaries, combined>>
pipeline_vars == <<data, logs, log_summary, dirs, interrupted, run>>
report_vars == <<top_summary, stats_out>>
validate_vars == <<melted, verdict>>
roundtrip_vars == <<disk, written>>
web_vars == <<merge, results, page>>
vars == <<vals, stat, lines, entries, summary_map, summaries, combined,
          data, logs, log_summary, dirs, interrupted, run,
          top_summary, stats_out, melted, verdict, disk, written,
          merge, results, page, pc>>

(***************************************************************************)
(* Bounds of the model.                                                    *)
(***************************************************************************)
MaxLen == 3
MaxVal == 4
MaxDeviations == 2
MaxContext == 1
MaxRows == 3
MaxLogLines == 3

\* Sequences over S of length at most n.
RECURSIVE SeqsUpTo(_, _)
SeqsUpTo(S, n) ==
    IF n = 0 THEN {<<>>}
    ELSE LET shorter == SeqsUpTo(S, n - 1)
         IN  shorter \cup {Append(s, x) : s \in {t \in shorter : Len(t) = n - 1}, x \in S}

Elems(s) == {s[i] : i \in 1 .. Len(s)}

RECURSIVE Flatten(_)
Flatten(ss) == IF ss = <<>> THEN <<>> ELSE Head(ss) \o Flatten(Tail(ss))

(***************************************************************************)
(* Files.  A CSV file is its first row (header, <<>> when the file is      *)
(* empty) and its further rows, a row being its fields as text.            *)
(***************************************************************************)
NoFile == [exists |-> FALSE, header |-> <<>>, rows |-> <<>>]
CsvFile(header, rows) == [exists |-> TRUE, header |-> header, rows |-> rows]

\* The labels of the model in the order of Python's string comparison
\* (by code point): "2.0.1.10" sorts before "2.0.1.9".
LabelsInOrder == <<"2.0.1.10", "2.0.1.9">>
Labels == {LabelsInOrder[i] : i \in 1 .. Len(LabelsInOrder)}
LabelRank(l) == CHOOSE i \in 1 .. Len(LabelsInOrder) : LabelsInOrder[i] = l

NoSummaries == [l \in Labels |-> NoFile]

\* The names a log file of the model may have, in the order of Python's
\* comparison of paths in one directory (by code point).
FileNamesInOrder == <<"a_loading.log", "b.log">>
FileNames == {FileNamesInOrder[i] : i \in 1 .. Len(FileNamesInOrder)}
NoLogFile == [exists |-> FALSE, lines |-> <<>>]
LogFile(ls) == [exists |-> TRUE, lines |-> ls]
NoLogs == [l \in Labels |-> [n \in FileNames |-> NoLogFile]]
NoData == [exists |-> FALSE, entry |-> [l \in Labels |-> "absent"]]
NoRun ==
    [op |-> "none", outcome |-> "none", dataset |-> "", pattern |-> "", rows |-> 0,
     was_built |-> FALSE, was_interrupted |-> FALSE, changed |-> FALSE]

\* report.py has not run: no exit status, neither of its files is there.
NoStats == [rc |-> -1, overall |-> NoFile, per_service |-> NoFile]

\* The validator has no records and has not been called.
NoRecords == <<>>
NoVerdict == [called |-> FALSE, warnings |-> <<>>, error |-> <<>>]

\* A text file: its lines, each a sequence of tokens, the terminator left out.
NoText == [exists |-> FALSE, text |-> <<>>]
TextFile(text) == [exists |-> TRUE, text |-> text]
NoDisk == [l \in Labels |-> NoText]
NoWritten == [l \in Labels |-> <<>>]

\* A directory tree of a data folder: what there is at each path below its
\* root; a file is the text it holds.
Paths == {"f", "d", "d/g", "d/d"}
Absent == [kind |-> "absent", content |-> ""]
Dir == [kind |-> "dir", content |-> ""]
File(content) == [kind |-> "file", content |-> content]
EmptyTree == [p \in Paths |-> Absent]

\* No merge has been asked for.
NoMerge ==
    [sources |-> <<>>, overwrite |-> FALSE, before |-> EmptyTree, dest |-> EmptyTree,
     outcome |-> "idle", copied |-> 0, skipped |-> 0, overwritten |-> 0, printed |-> FALSE]

\* The result directories the web application serves, none of them filled,
\* and no request answered yet.
ResultNames == {"alpha", "beta"}
NoResults == [d \in ResultNames |-> [summary |-> NoFile, stats |-> NoStats]]
NoPage ==
    [route |-> "none", dataset |-> "", status |-> 0, warnings |-> <<>>, error |-> <<>>,
     bar_figure |-> "none", bar_html |-> "none", version_stats |-> <<>>,
     service_avg |-> <<>>]

(***************************************************************************)
(* report.py: the statistics functions.                                    *)
(***************************************************************************)

RECURSIVE SumSeq(_)
SumSeq(s) == IF s = <<>> THEN 0 ELSE Head(s) + SumSeq(Tail(s))

\* Python's round() of the exact quotient num/den (den > 0): the nearest
\* integer, a tie going to the even neighbour.  \div is the floor division.
RoundHalfUp(num, den) == (2 * num + den) \div (2 * den)
Round(num, den) ==
    LET q == num \div den
        r == num - q * den
    IN  IF 2 * r < den THEN q
        ELSE IF 2 * r > den THEN q + 1
        ELSE IF q % 2 = 0 THEN q ELSE q + 1

\* sorted(vals): insertion of each element into an ascending list.
RECURSIVE InsertAsc(_, _)
InsertAsc(x, s) ==
    IF s = <<>> THEN <<x>>
    ELSE IF x < Head(s) THEN <<x>> \o s
    ELSE <<Head(s)>> \o InsertAsc(x, Tail(s))

RECURSIVE SortAsc(_)
SortAsc(s) == IF s = <<>> THEN <<>> ELSE InsertAsc(s[Len(s)], SortAsc(SubSeq(s, 1, Len(s) - 1)))

RECURSIVE MinSeq(_)
MinSeq(s) ==
    IF Len(s) = 1 THEN s[1]
    ELSE LET m == MinSeq(Tail(s)) IN IF Head(s) <= m THEN Head(s) ELSE m

RECURSIVE MaxSeq(_)
MaxSeq(s) ==
    IF Len(s) = 1 THEN s[1]
    ELSE LET m == MaxSeq(Tail(s)) IN IF Head(s) >= m THEN Head(s) ELSE m

AvgHalfUp(v) == IF v # <<>> THEN RoundHalfUp(SumSeq(v), Len(v)) ELSE 0
SumAsAvg(v) == SumSeq(v)
_avg(v) == IF v # <<>> THEN Round(SumSeq(v), Len(v)) ELSE 0

MinOfFirst(v) == IF v # <<>> THEN v[1] ELSE 0
_min(v) == IF v # <<>> THEN MinSeq(v) ELSE 0

_max(v) == IF v # <<>> THEN MaxSeq(v) ELSE 0

MedianHalfUp(v) ==
    IF v = <<>> THEN 0
    ELSE LET s == SortAsc(v)
             n == Len(s)
             mid == n \div 2
         IN  IF n % 2 = 1 THEN s[mid + 1]
             ELSE RoundHalfUp(s[mid] + s[mid + 1], 2)
\* s[mid] of the 0-based Python list is s[mid + 1] here.
_median(v) ==
    IF v = <<>> THEN 0
    ELSE LET s == SortAsc(v)
             n == Len(s)
             mid == n \div 2
         IN  IF n % 2 = 1 THEN s[mid + 1]
             ELSE Round(s[mid] + s[mid + 1], 2)

\* The values a sample may take: small ones, where ties are frequent, and the
\* values of the documented examples.
StatVals == (0 .. MaxVal) \cup {7, 10, 15, 20, 30}
StatLists == SeqsUpTo(StatVals, MaxLen)

NoCall == [fn |-> "none", arg |-> <<>>, out |-> 0]

InitStats ==
    /\ vals \in StatLists
    /\ stat = NoCall
    /\ lines = <<>>
    /\ entries = <<>>
    /\ summary_map = <<>>
    /\ summaries = NoSummaries
    /\ combined = NoFile
    /\ data = NoData
    /\ logs = NoLogs
    /\ log_summary = NoSummaries
    /\ dirs = {}
    /\ interrupted = FALSE
    /\ run = NoRun
    /\ top_summary = NoFile
    /\ stats_out = NoStats
    /\ melted = NoRecords
    /\ verdict = NoVerdict
    /\ disk = NoDisk
    /\ written = NoWritten
    /\ merge = NoMerge
    /\ results = NoResults
    /\ page = NoPage
    /\ pc = "stats"

\* One call of a statistics function on vals.  None of them assigns to its
\* argument (sorted() builds a new list), so vals is left as it is.
CallAvg ==
    /\ pc = "stats"
    /\ stat' = [fn |-> "avg", arg |-> vals, out |-> _avg(vals)]
    /\ UNCHANGED <<vals, parse_vars, combine_vars, pipeline_vars, pc,
                 report_vars, validate_vars, roundtrip_vars, web_vars>>

CallMin ==
    /\ pc = "stats"
    /\ stat' = [fn |-> "min", arg |-> vals, out |-> _min(vals)]
    /\ UNCHANGED <<vals, parse_vars, combine_vars, pipeline_vars, pc,
                 report_vars, validate_vars, roundtrip_vars, web_vars>>

CallMax ==
    /\ pc = "stats"
    /\ stat' = [fn |-> "max", arg |-> vals, out |-> _max(vals)]
    /\ UNCHANGED <<vals, parse_vars, combine_vars, pipeline_vars, pc,
                 report_vars, validate_vars, roundtrip_vars, web_vars>>

CallMedian ==
    /\ pc = "stats"
    /\ stat' = [fn |-> "median", arg |-> vals, out |-> _median(vals)]
    /\ UNCHANGED <<vals, parse_vars, combine_vars, pipeline_vars, pc,
                 report_vars, validate_vars, roundtrip_vars, web_vars>>

NextStats == CallAvg \/ CallMin \/ CallMax \/ CallMedian

SpecStats == InitStats /\ [][NextStats]_vars

(***************************************************************************)
(* extract.py: LOG_PATTERN and parse_log_lines.                            *)
(*                                                                         *)
(* A line is a sequence of tokens.  "TS" stands for twelve characters of   *)
(* the shape dd:dd:dd.ddd, " " for one whitespace character, "0" to "9"    *)
(* for digits, "-" for the dash, a keyword or unit token for its literal   *)
(* characters in the case written, every other token for characters that   *)
(* are none of these.  The line terminator is left out: it is whitespace   *)
(* after everything the pattern looks at.                                  *)
(***************************************************************************)
IsWs(c) == c = " "
Digits == <<"0", "1", "2", "3", "4", "5", "6", "7", "8", "9">>
IsDigit(c) == \E i \in 1 .. Len(Digits) : Digits[i] = c

\* re.IGNORECASE: the pattern's literals are compared case-folded.  The flag
\* is set for the whole pattern, the unit included.
Fold(c) ==
    CASE c = "ELAPSED:" -> "elapsed:"
      [] c = "Loading_Time:" -> "loading_time:"
      [] c = "MS" -> "ms"
      [] c = "B" -> "b"
      [] OTHER -> c

\* The longest run of tokens satisfying a class, from position p on.
RECURSIVE WsRun(_, _)
WsRun(line, p) ==
    IF p <= Len(line) /\ IsWs(line[p]) THEN 1 + WsRun(line, p + 1) ELSE 0

RECURSIVE DigitRun(_, _)
DigitRun(line, p) ==
    IF p <= Len(line) /\ IsDigit(line[p]) THEN 1 + DigitRun(line, p + 1) ELSE 0

TokenAt(line, p, t) == p <= Len(line) /\ Fold(line[p]) = t

\* \s+-\s+(?:loading_time|elapsed):\s+(\d+)\s+ms from position p.  Every
\* repetition is greedy and is followed by a token outside its class, so
\* giving characters back never makes it match.
TailMatch(line, p) ==
    LET w1 == WsRun(line, p)
        dash == p + w1
        w2 == WsRun(line, dash + 1)
        kw == dash + 1 + w2
        w3 == WsRun(line, kw + 1)
        d0 == kw + 1 + w3
        nd == DigitRun(line, d0)
        w4 == WsRun(line, d0 + nd)
        unit == d0 + nd + w4
    IN  IF /\ w1 >= 1
           /\ TokenAt(line, dash, "-")
           /\ w2 >= 1
           /\ (TokenAt(line, kw, "loading_time:") \/ TokenAt(line, kw, "elapsed:"))
           /\ w3 >= 1
           /\ nd >= 1
           /\ w4 >= 1
           /\ TokenAt(line, unit, "ms")
        THEN [ok |-> TRUE, group2 |-> SubSeq(line, d0, d0 + nd - 1)]
        ELSE [ok |-> FALSE, group2 |-> <<>>]

\* LOG_PATTERN.search(line).  ^ without re.MULTILINE matches at the start of
\* the line only.  The first \s+ takes k whitespace tokens, trying the most
\* first; (.*?) then takes the tokens up to j, trying the fewest first.
SearchGreedyLabel(line) ==
    LET w == WsRun(line, 2)
        tries == {kj \in (1 .. w) \X (1 .. Len(line)) :
                     /\ kj[2] >= kj[1] + 1
                     /\ TailMatch(line, kj[2] + 1).ok}
    IN  IF Len(line) >= 1 /\ line[1] = "TS" /\ tries # {}
        THEN LET kmax == CHOOSE k \in {t[1] : t \in tries} :
                            \A t \in tries : t[1] <= k
                 jmax == CHOOSE j \in {t[2] : t \in {u \in tries : u[1] = kmax}} :
                            \A t \in tries : t[1] = kmax => t[2] <= j
             IN  [ok |-> TRUE,
                  group1 |-> SubSeq(line, kmax + 2, jmax),
                  group2 |-> TailMatch(line, jmax + 1).group2]
        ELSE [ok |-> FALSE, group1 |-> <<>>, group2 |-> <<>>]
Search(line) ==
    LET w == WsRun(line, 2)
        tries == {kj \in (1 .. w) \X (1 .. Len(line)) :
                     /\ kj[2] >= kj[1] + 1
                     /\ TailMatch(line, kj[2] + 1).ok}
    IN  IF Len(line) >= 1 /\ line[1] = "TS" /\ tries # {}
        THEN LET kmax == CHOOSE k \in {t[1] : t \in tries} :
                            \A t \in tries : t[1] <= k
                 jmin == CHOOSE j \in {t[2] : t \in {u \in tries : u[1] = kmax}} :
                            \A t \in tries : t[1] = kmax => j <= t[2]
             IN  [ok |-> TRUE,
                  group1 |-> SubSeq(line, kmax + 2, jmin),
                  group2 |-> TailMatch(line, jmin + 1).group2]
        ELSE [ok |-> FALSE, group1 |-> <<>>, group2 |-> <<>>]

\* str.strip(): the leading and the trailing whitespace removed.
RECURSIVE StripLeft(_)
StripLeft(s) == IF s # <<>> /\ IsWs(Head(s)) THEN StripLeft(Tail(s)) ELSE s

RECURSIVE StripRight(_)
StripRight(s) ==
    IF s # <<>> /\ IsWs(s[Len(s)]) THEN StripRight(SubSeq(s, 1, Len(s) - 1)) ELSE s

Strip(s) == StripRight(StripLeft(s))

\* int() of a string of digits; it cannot fail on what (\d+) captured.
DigitVal(c) == (CHOOSE i \in 1 .. Len(Digits) : Digits[i] = c) - 1

RECURSIVE IntOf(_)
IntOf(ds) ==
    IF ds = <<>> THEN 0 ELSE 10 * IntOf(SubSeq(ds, 1, Len(ds) - 1)) + DigitVal(ds[Len(ds)])

Sample(service, ms) == [service |-> service, ms |-> ms]

\* One iteration of the loop of parse_log_lines: the entries the line adds.
ParseLine(line) ==
    LET m == Search(line)
    IN  IF ~m.ok THEN <<>> ELSE <<Sample(Strip(m.group1), IntOf(m.group2))>>

RECURSIVE parse_log_lines(_)
parse_log_lines(ls) ==
    IF ls = <<>> THEN <<>> ELSE ParseLine(Head(ls)) \o parse_log_lines(Tail(ls))

\* The lines of the model: the fields of a well-formed line, each with the
\* variants a log may hold in its place, at most MaxDeviations of them away
\* from the first (well-formed) one.
Sp == <<" ">>
LineFields ==
    << <<(<<"TS">>), <<>>, <<"a">>>>,
       <<Sp, <<" ", " ">>, <<>>>>,
       <<(<<"a">>), <<>>, <<"a", " ", "B">>,
         <<"a", " ", "-", " ", "elapsed:", " ", "0", " ", "ms">>>>,
       <<Sp, <<>>>>,
       <<(<<"-">>), <<"a">>>>,
       <<Sp, <<>>>>,
       <<(<<"loading_time:">>), <<"elapsed:">>, <<"ELAPSED:">>, <<"elapse:">>>>,
       <<Sp, <<>>>>,
       <<(<<"7">>), <<"0", "7">>, <<"7", "0">>, <<>>, <<"a">>>>,
       <<Sp, <<>>>>,
       <<(<<"ms">>), <<"MS">>, <<"s">>>>,
       <<(<<>>), <<" ", "a">>>> >>

RECURSIVE BuildLines(_, _)
BuildLines(i, d) ==
    IF i > Len(LineFields) THEN {<<>>}
    ELSE {LineFields[i][1] \o r : r \in BuildLines(i + 1, d)}
         \cup (IF d = 0 THEN {}
               ELSE {LineFields[i][a] \o r :
                        a \in 2 .. Len(LineFields[i]), r \in BuildLines(i + 1, d - 1)})

LineSet == BuildLines(1, MaxDeviations)

\* The lines around the one under test: a well-formed one and one that is not.
ContextLines ==
    { <<"TS", " ", "B", " ", "-", " ", "elapsed:", " ", "0", " ", "ms">>,
      <<"a", " ", "-">> }

InitParse ==
    /\ lines \in {<<>>} \cup
          {pre \o <<l>> \o post :
              pre \in SeqsUpTo(ContextLines, MaxContext),
              l \in LineSet,
              post \in SeqsUpTo(ContextLines, MaxContext)}
    /\ entries = <<>>
    /\ pc = "parse"
    /\ vals = <<>>
    /\ stat = NoCall
    /\ summary_map = <<>>
    /\ summaries = NoSummaries
    /\ combined = NoFile
    /\ data = NoData
    /\ logs = NoLogs
    /\ log_summary = NoSummaries
    /\ dirs = {}
    /\ interrupted = FALSE
    /\ run = NoRun
    /\ top_summary = NoFile
    /\ stats_out = NoStats
    /\ melted = NoRecords
    /\ verdict = NoVerdict
    /\ disk = NoDisk
    /\ written = NoWritten
    /\ merge = NoMerge
    /\ results = NoResults
    /\ page = NoPage

ParseLogLines ==
    /\ pc = "parse"
    /\ entries' = parse_log_lines(lines)
    /\ pc' = "parsed"
    /\ UNCHANGED <<lines, stats_vars, combine_vars, pipeline_vars,
                 report_vars, validate_vars, roundtrip_vars, web_vars>>

NextParse == ParseLogLines

SpecParse == InitParse /\ [][NextParse]_vars

(***************************************************************************)
(* spm.py: _combine_summaries.                                             *)
(*                                                                         *)
(* A field of a CSV row is text, a sequence of tokens as in a log line;    *)
(* the header words "service" and "loading_time_ms" and a version label    *)
(* are one token each.                                                     *)
(***************************************************************************)
ServiceWord == <<"service">>
SummaryHeader == <<ServiceWord, <<"loading_time_ms">>>>

\* int(text): surrounding whitespace is dropped, a sign may lead, digits
\* follow; anything else is a ValueError.
PyInt(text) ==
    LET t == Strip(text)
        signed == t # <<>> /\ t[1] \in {"-", "+"}
        ds == IF signed THEN Tail(t) ELSE t
    IN  IF ds # <<>> /\ \A i \in 1 .. Len(ds) : IsDigit(ds[i])
        THEN [ok |-> TRUE, v |-> IF signed /\ t[1] = "-" THEN -IntOf(ds) ELSE IntOf(ds)]
        ELSE [ok |-> FALSE, v |-> 0]

\* str(n), as csv.writer writes an integer.
RECURSIVE StrOfNat(_)
StrOfNat(n) ==
    IF n < 10 THEN <<Digits[n + 1]>> ELSE StrOfNat(n \div 10) \o <<Digits[(n % 10) + 1]>>

StrOf(n) == IF n < 0 THEN <<"-">> \o StrOfNat(-n) ELSE StrOfNat(n)

\* sorted(labels): insertion by Python's string order.
RECURSIVE InsertLabel(_, _)
InsertLabel(l, s) ==
    IF s = <<>> THEN <<l>>
    ELSE IF LabelRank(l) < LabelRank(Head(s)) THEN <<l>> \o s
    ELSE <<Head(s)>> \o InsertLabel(l, Tail(s))

RECURSIVE SortedLabels(_)
SortedLabels(s) ==
    IF s = <<>> THEN <<>>
    ELSE InsertLabel(s[Len(s)], SortedLabels(SubSeq(s, 1, Len(s) - 1)))

\* dict.get(key, []) and the append to dict[key] of a dict of lists, the dict
\* being a function on its keys.
EmptyDict == <<>>
DictGet(d, k) == IF k \in DOMAIN d THEN d[k] ELSE <<>>
DictAssign(d, k, v) ==
    IF k \in DOMAIN d THEN [d EXCEPT ![k] = <<v>>] ELSE d @@ (k :> <<v>>)
DictAppend(d, k, v) ==
    IF k \in DOMAIN d THEN [d EXCEPT ![k] = Append(@, v)] ELSE d @@ (k :> <<v>>)

\* The loop over the rows of one summary (lines 97 to 110): acc holds the
\* dataset's dict, service_order and seen_services.
RECURSIVE ReadRowsUntilBad(_, _)
ReadRowsUntilBad(rows, acc) ==
    IF rows = <<>> THEN acc
    ELSE IF Len(Head(rows)) < 2 THEN acc
    ELSE IF ~PyInt(Head(rows)[2]).ok THEN acc
    ELSE ReadRowsUntilBad(Tail(rows),
             [dict |-> DictAppend(acc.dict, Strip(Head(rows)[1]), PyInt(Head(rows)[2]).v),
              service_order |-> IF Strip(Head(rows)[1]) \in acc.seen_services
                                THEN acc.service_order
                                ELSE Append(acc.service_order, Strip(Head(rows)[1])),
              seen_services |-> acc.seen_services \cup {Strip(Head(rows)[1])}])

RECURSIVE ReadRows(_, _)
ReadRows(rows, acc) ==
    IF rows = <<>> THEN acc
    ELSE LET row == Head(rows)
             service == Strip(row[1])
             value == PyInt(row[2])
         IN  IF Len(row) < 2 THEN ReadRows(Tail(rows), acc)
             ELSE IF ~value.ok THEN ReadRows(Tail(rows), acc)
             ELSE ReadRows(Tail(rows),
                     [dict |-> DictAppend(acc.dict, service, value.v),
                      service_order |-> IF service \in acc.seen_services
                                        THEN acc.service_order
                                        ELSE Append(acc.service_order, service),
                      seen_services |-> acc.seen_services \cup {service}])

\* The loop over sorted(summary_map.keys()) (lines 85 to 110): st holds
\* per_dataset_values, service_order and seen_services.
RECURSIVE ReadDatasets(_, _, _)
ReadDatasets(datasets, files, st) ==
    IF datasets = <<>> THEN st
    ELSE LET dataset == Head(datasets)
             file == files[dataset]
             skip == [st EXCEPT !.per_dataset_values = @ @@ (dataset :> EmptyDict)]
         IN  IF ~file.exists THEN ReadDatasets(Tail(datasets), files, skip)
             ELSE IF file.header = <<>> \/ file.header[1] # ServiceWord
                  THEN ReadDatasets(Tail(datasets), files, skip)
             ELSE LET acc == ReadRows(file.rows,
                                [dict |-> EmptyDict,
                                 service_order |-> st.service_order,
                                 seen_services |-> st.seen_services])
                  IN  ReadDatasets(Tail(datasets), files,
                          [per_dataset_values |->
                               st.per_dataset_values @@ (dataset :> acc.dict),
                           service_order |-> acc.service_order,
                           seen_services |-> acc.seen_services])

\* The rows written for one service (lines 123 to 133).
RECURSIVE MaxLenOf(_)
MaxLenOf(lists) ==
    IF lists = <<>> THEN 0
    ELSE LET m == MaxLenOf(Tail(lists))
         IN  IF Len(Head(lists)) > m THEN Len(Head(lists)) ELSE m

ServiceRows(service, datasets, per_dataset_values) ==
    LET per_service_rows ==
            [i \in 1 .. Len(datasets) |-> DictGet(per_dataset_values[datasets[i]], service)]
        max_rows == MaxLenOf(per_service_rows)
    IN  [idx \in 1 .. max_rows |->
            <<service>> \o
            [i \in 1 .. Len(datasets) |->
                IF idx <= Len(per_service_rows[i])
                THEN StrOf(per_service_rows[i][idx]) ELSE <<>>]]

RECURSIVE AllServiceRows(_, _, _)
AllServiceRows(service_order, datasets, per_dataset_values) ==
    IF service_order = <<>> THEN <<>>
    ELSE ServiceRows(Head(service_order), datasets, per_dataset_values)
         \o AllServiceRows(Tail(service_order), datasets, per_dataset_values)

\* The file _combine_summaries leaves at output_path, given the one there.
CombineUnsortedLabels(keys, files, old) ==
    LET st == ReadDatasets(keys, files,
                  [per_dataset_values |-> EmptyDict,
                   service_order |-> <<>>,
                   seen_services |-> {}])
    IN  IF keys = <<>> \/ st.service_order = <<>> THEN old
        ELSE CsvFile(<<ServiceWord>> \o [i \in 1 .. Len(keys) |-> <<keys[i]>>],
                     AllServiceRows(st.service_order, keys, st.per_dataset_values))

\* The same with a column only for the versions whose summary was read.
CombineReadOnly(keys, files, old) ==
    LET WasRead(l) == /\ files[l].exists
                      /\ files[l].header # <<>>
                      /\ files[l].header[1] = ServiceWord
    IN  CombineUnsortedLabels(SelectSeq(SortedLabels(keys), WasRead), files, old)

\* The same with the header written before the services are looked at.
HeaderFirst(datasets, old, new) ==
    IF new.exists THEN new
    ELSE IF datasets = <<>> THEN old
    ELSE CsvFile(<<ServiceWord>> \o [i \in 1 .. Len(datasets) |-> <<datasets[i]>>], <<>>)
CombineHeaderFirst(keys, files, old) ==
    HeaderFirst(SortedLabels(keys), old,
                CombineUnsortedLabels(SortedLabels(keys), files, NoFile))

\* The same with the rows added to those the output file already holds.
AppendRows(old, new) ==
    IF ~new.exists THEN old
    ELSE IF old.exists THEN CsvFile(old.header, old.rows \o new.rows) ELSE new
CombineAppending(keys, files, old) ==
    AppendRows(old, CombineUnsortedLabels(SortedLabels(keys), files, NoFile))

_combine_summaries(keys, files, old) ==
    LET st == ReadDatasets(SortedLabels(keys), files,
                  [per_dataset_values |-> EmptyDict,
                   service_order |-> <<>>,
                   seen_services |-> {}])
        datasets == SortedLabels(keys)
    IN  IF keys = <<>> THEN old
        ELSE IF st.service_order = <<>> THEN old
        ELSE CsvFile(<<ServiceWord>> \o [i \in 1 .. Len(datasets) |-> <<datasets[i]>>],
                     AllServiceRows(st.service_order, datasets, st.per_dataset_values))

\* The rows a summary may hold: well-formed ones, one whose fields carry
\* surrounding whitespace, one whose value is no integer, one that is short.
Txt100 == <<"1", "0", "0">>
Txt150 == <<"1", "5", "0">>
Txt200 == <<"2", "0", "0">>
RowSet ==
    { << <<"X">>, Txt100 >>, << <<"X">>, Txt200 >>, << <<"X">>, Txt150 >>,
      << <<" ", "Y">>, <<" ", "7">> >>,
      << <<"X">>, <<"a">> >>, << <<"Z">> >> }

\* A file some earlier run left at the output path.
StaleCombined == CsvFile(<<ServiceWord, <<"1.0">>>>, << << <<"W">>, <<"9">> >> >>)

\* The summary files: the rows of all of them, cut in two, under a header
\* that is right, wrong or missing (an empty file), or no file at all.
HeaderSet == {SummaryHeader, <<<<"Service">>, <<"loading_time_ms">>>>, <<>>}
SummaryFiles(rows) ==
    {CsvFile(h, rows) : h \in {x \in HeaderSet : x # <<>> \/ rows = <<>>}}
    \cup (IF rows = <<>> THEN {NoFile} ELSE {})

InitCombine ==
    /\ \E all \in SeqsUpTo(RowSet, MaxRows) :
         \E cut \in 0 .. Len(all) :
            \E f1 \in SummaryFiles(SubSeq(all, 1, cut)) :
               \E f2 \in SummaryFiles(SubSeq(all, cut + 1, Len(all))) :
                  summaries = [l \in Labels |-> IF l = LabelsInOrder[1] THEN f1 ELSE f2]
    /\ summary_map \in {<<>>} \cup {<<l>> : l \in Labels}
                      \cup {p \in Labels \X Labels : p[1] # p[2]}
    /\ \A l \in Labels : (\A i \in 1 .. Len(summary_map) : summary_map[i] # l)
                            => summaries[l] = NoFile
    /\ combined \in {NoFile, StaleCombined}
    /\ pc = "combine"
    /\ vals = <<>>
    /\ stat = NoCall
    /\ lines = <<>>
    /\ entries = <<>>
    /\ data = NoData
    /\ logs = NoLogs
    /\ log_summary = NoSummaries
    /\ dirs = {}
    /\ interrupted = FALSE
    /\ run = NoRun
    /\ top_summary = NoFile
    /\ stats_out = NoStats
    /\ melted = NoRecords
    /\ verdict = NoVerdict
    /\ disk = NoDisk
    /\ written = NoWritten
    /\ merge = NoMerge
    /\ results = NoResults
    /\ page = NoPage

CombineSummaries ==
    /\ pc \in {"combine", "combined"}
    /\ combined' = _combine_summaries(summary_map, summaries, combined)
    /\ pc' = "combined"
    /\ UNCHANGED <<stats_vars, parse_vars, summary_map, summaries, pipeline_vars,
                 report_vars, validate_vars, roundtrip_vars, web_vars>>

NextCombine == CombineSummaries

SpecCombine == InitCombine /\ [][NextCombine]_vars

(***************************************************************************)
(* report.py: main.                                                        *)
(*                                                                         *)
(* The dicts of main are functions on their keys; the key order of         *)
(* per_service_values, which the last loop follows, is the list services.  *)
(***************************************************************************)
MetricWord == <<"metric">>

\* _to_int(s): the integer, or None.
ToIntBlankZero(s) == IF Strip(s) = <<>> THEN [ok |-> TRUE, v |-> 0] ELSE PyInt(s)
_to_int(s) == PyInt(s)

\* {v: [] for v in versions}
EmptyLists(versions) == [v \in Elems(versions) |-> <<>>]

\* Lines 70 and 71: the appends for a cell that holds val.
AddCell(acc, v, val) ==
    IF ~val.ok THEN acc
    ELSE [pv |-> [acc.pv EXCEPT ![v] = Append(@, val.v)],
          sv |-> [acc.sv EXCEPT ![v] = Append(@, val.v)]]

\* The loop over the versions for one row (lines 64 to 71), from the i-th
\* version on: acc holds per_version_values (pv) and the dict of the row's
\* service (sv).
RECURSIVE ReadCells(_, _, _, _)
ReadCells(row, versions, i, acc) ==
    IF i > Len(versions) THEN acc
    ELSE IF i >= Len(row) THEN ReadCells(row, versions, i + 1, acc)
    ELSE ReadCells(row, versions, i + 1, AddCell(acc, versions[i], _to_int(row[i + 1])))

\* Lines 62 and 63: the service's entry, made at its first row.
Entered(st, service, versions) ==
    IF service \in DOMAIN st.per_service_values THEN st
    ELSE [st EXCEPT !.per_service_values = @ @@ (service :> EmptyLists(versions)),
                    !.services = Append(@, service)]

WithCells(st, service, acc) ==
    [st EXCEPT !.per_version_values = acc.pv, !.per_service_values[service] = acc.sv]

WithRow(st, row, versions) ==
    WithCells(st, row[1],
              ReadCells(row, versions, 1,
                        [pv |-> st.per_version_values,
                         sv |-> st.per_service_values[row[1]]]))

\* The loop over the rows (lines 58 to 71).
RECURSIVE ReadTable(_, _, _)
ReadTable(rows, versions, st) ==
    IF rows = <<>> THEN st
    ELSE IF Head(rows) = <<>> THEN ReadTable(Tail(rows), versions, st)
    ELSE ReadTable(Tail(rows), versions,
                   WithRow(Entered(st, Head(rows)[1], versions), Head(rows), versions))

\* The four cells of one service and version (line 100).
StatCellsMinFirst(values) ==
    <<StrOf(_avg(values)), StrOf(_min(values)), StrOf(_max(values)), StrOf(_median(values))>>
StatCells(values) ==
    <<StrOf(_avg(values)), StrOf(_max(values)), StrOf(_min(values)), StrOf(_median(values))>>

\* The file summary_stats.csv (lines 78 to 84).
OverallFile(versions, per_version_values) ==
    CsvFile(<<MetricWord>> \o versions,
            << <<<<"Average">>>> \o
                   [i \in 1 .. Len(versions) |-> StrOf(_avg(per_version_values[versions[i]]))],
               <<<<"Max">>>> \o
                   [i \in 1 .. Len(versions) |-> StrOf(_max(per_version_values[versions[i]]))],
               <<<<"Min">>>> \o
                   [i \in 1 .. Len(versions) |-> StrOf(_min(per_version_values[versions[i]]))],
               <<<<"Median">>>> \o
                   [i \in 1 .. Len(versions) |-> StrOf(_median(per_version_values[versions[i]]))] >>)

\* The column names of one version (line 92).
StatColumns(v) == <<v \o <<"_avg">>, v \o <<"_max">>, v \o <<"_min">>, v \o <<"_median">>>>

\* The file service_stats.csv (lines 88 to 101).
ServiceFile(versions, services, per_service_values) ==
    CsvFile(<<ServiceWord>> \o Flatten([i \in 1 .. Len(versions) |-> StatColumns(versions[i])]),
            [k \in 1 .. Len(services) |->
                <<services[k]>> \o
                Flatten([i \in 1 .. Len(versions) |->
                            StatCells(DictGet(per_service_values[services[k]], versions[i]))])])

WriteStats(versions, st) ==
    [rc |-> 0,
     overall |-> OverallFile(versions, st.per_version_values),
     per_service |-> ServiceFile(versions, st.services, st.per_service_values)]

\* main(): its return value and the two files afterwards, src being the
\* file result/summary.csv and old what an earlier run left.
report_main(src, old) ==
    IF ~src.exists THEN [old EXCEPT !.rc = 1]
    ELSE IF src.header = <<>> \/ src.header[1] # ServiceWord THEN [old EXCEPT !.rc = 1]
    ELSE WriteStats(Tail(src.header),
                    ReadTable(src.rows, Tail(src.header),
                              [per_version_values |-> EmptyLists(Tail(src.header)),
                               per_service_values |-> EmptyDict,
                               services |-> <<>>]))

\* The tables report.py may find: no file, an empty one, one under a wrong
\* header, and one under the header of a combined summary, of at most
\* MaxTableRows rows.  A combined summary names each version once.
MaxTableRows == 3
Cell7 == <<"7">>
Cell10 == <<"1", "0">>
Blank == <<>>
TableRows ==
    { << <<"X">>, Cell7, Cell10 >>, << <<"X">>, Cell10, Blank >>, << <<"X">>, Blank, Cell7 >>,
      << <<"Y">>, Cell7, Cell7 >>, << <<"Y">>, <<"a">>, Cell10 >>, << <<"Y">>, Blank, Blank >>,
      << <<"OUTLOOK">>, Txt100, Txt100 >>, << <<"X">> >>, <<>> }
TableHeaders ==
    {<<ServiceWord>>} \cup {<<ServiceWord, <<l>>>> : l \in Labels}
    \cup {<<ServiceWord, <<LabelsInOrder[1]>>, <<LabelsInOrder[2]>>>>}
Tables ==
    {NoFile, CsvFile(<<>>, <<>>), CsvFile(<<<<"Service">>, <<LabelsInOrder[1]>>>>, <<>>)}
    \cup {CsvFile(h, rows) : h \in TableHeaders, rows \in SeqsUpTo(TableRows, MaxTableRows)}

InitReport ==
    /\ top_summary \in Tables
    /\ stats_out = NoStats
    /\ pc = "report"
    /\ vals = <<>>
    /\ stat = NoCall
    /\ lines = <<>>
    /\ entries = <<>>
    /\ summary_map = <<>>
    /\ summaries = NoSummaries
    /\ combined = NoFile
    /\ data = NoData
    /\ logs = NoLogs
    /\ log_summary = NoSummaries
    /\ dirs = {}
    /\ interrupted = FALSE
    /\ run = NoRun
    /\ melted = NoRecords
    /\ verdict = NoVerdict
    /\ disk = NoDisk
    /\ written = NoWritten
    /\ merge = NoMerge
    /\ results = NoResults
    /\ page = NoPage

\* python report.py with result/summary.csv as it is.
ReportMain ==
    /\ pc = "report"
    /\ stats_out' = report_main(top_summary, stats_out)
    /\ pc' = "reported"
    /\ UNCHANGED <<stats_vars, parse_vars, combine_vars, pipeline_vars, top_summary,
                   validate_vars, roundtrip_vars, web_vars>>

NextReport == ReportMain

SpecReport == InitReport /\ [][NextReport]_vars

(***************************************************************************)
(* extract.py: process_dir.                                                *)
(*                                                                         *)
(* A log file is the lines its decoding yields: the strict utf-8-sig       *)
(* decoding, or, when that raises UnicodeError (before any entry of the    *)
(* file is kept), the lossy one.  The directory does not change while it   *)
(* is read, so open() does not raise FileNotFoundError.                    *)
(***************************************************************************)
FileRank(n) == CHOOSE i \in 1 .. Len(FileNamesInOrder) : FileNamesInOrder[i] = n

\* Path.glob(pattern) on a file name.
MatchesGlob(name, pattern) ==
    CASE pattern = "*.log" -> name \in {"a_loading.log", "b.log"}
      [] pattern = "*loading.log" -> name \in {"a_loading.log"}
      [] OTHER -> FALSE

Patterns == {"*.log", "*loading.log"}

\* sorted(paths): ascending by name.
RECURSIVE InsertName(_, _)
InsertName(n, s) ==
    IF s = <<>> THEN <<n>>
    ELSE IF FileRank(n) < FileRank(Head(s)) THEN <<n>> \o s
    ELSE <<Head(s)>> \o InsertName(n, Tail(s))

RECURSIVE SetToSeq(_)
SetToSeq(S) ==
    IF S = {} THEN <<>> ELSE LET x == CHOOSE y \in S : TRUE IN <<x>> \o SetToSeq(S \ {x})

RECURSIVE SortNames(_)
SortNames(s) ==
    IF s = <<>> THEN <<>> ELSE InsertName(s[Len(s)], SortNames(SubSeq(s, 1, Len(s) - 1)))

GlobUnsorted(dir, pattern) ==
    LET matched == {n \in FileNames : dir[n].exists /\ MatchesGlob(n, pattern)}
        up == SortNames(SetToSeq(matched))
    IN  [i \in 1 .. Len(up) |-> up[Len(up) + 1 - i]]
GlobSorted(dir, pattern) ==
    SortNames(SetToSeq({n \in FileNames : dir[n].exists /\ MatchesGlob(n, pattern)}))

\* all_entries: the entries of the files in that order.
AllEntries(dir, pattern) ==
    LET files == GlobSorted(dir, pattern)
    IN  Flatten([i \in 1 .. Len(files) |-> parse_log_lines(dir[files[i]].lines)])

\* process_dir(dir_path, file_glob): the row count it returns and the file
\* at dir_path / "summary.csv" afterwards, old being the one before.
WriteSummary(all_entries, old) ==
    IF all_entries = <<>> THEN [rows |-> 0, file |-> old]
    ELSE [rows |-> Len(all_entries),
          file |-> CsvFile(SummaryHeader,
                      [i \in 1 .. Len(all_entries) |->
                          <<all_entries[i].service, StrOf(all_entries[i].ms)>>])]

process_dir(dir, pattern, old) == WriteSummary(AllEntries(dir, pattern), old)

\* The parameters process_dir declares (extract.py line 32).
ProcessDirParams == {"dir_path", "file_glob"}

(***************************************************************************)
(* spm.py: the commands.                                                   *)
(***************************************************************************)
\* _collect_log_dirs: the entries of the data root in sorted order that are
\* directories holding a PerformanceLog directory.
IsLogDir(l) == data.entry[l] = "logdir"
_collect_log_dirs == SelectSeq(LabelsInOrder, IsLogDir)

DefaultPattern(dir) == "*.log"
_determine_pattern(dir) ==
    IF \E n \in FileNames : dir[n].exists /\ MatchesGlob(n, "*loading.log")
    THEN "*loading.log" ELSE "*.log"

\* The loop of generate_reports over the datasets (lines 158 to 170); st
\* keeps the dataset last entered and the pattern chosen for it.  The
\* call passes out_path by keyword; a keyword the callee does not declare
\* raises TypeError before the callee runs.
\* The loop after a call that returned r (lines 165 to 170).
Returned(st, d, r) ==
    [st EXCEPT !.log_summary[d] = r.file,
               !.summary_paths = IF r.rows > 0 THEN Append(@, d) ELSE @,
               !.total_rows = IF r.rows > 0 THEN @ + r.rows ELSE @]

RECURSIVE GenerateLoop(_, _)
GenerateLoop(datasets, st) ==
    IF datasets = <<>> \/ st.raised # "none" THEN st
    ELSE LET d == Head(datasets)
             made == [st EXCEPT !.dirs = @ \cup {d}, !.dataset = d,
                                !.pattern = _determine_pattern(logs[d])]
         IN  IF "out_path" \notin ProcessDirParams
             THEN [made EXCEPT !.raised = "TypeError"]
             ELSE GenerateLoop(Tail(datasets),
                      Returned(made, d,
                               process_dir(logs[d], _determine_pattern(logs[d]),
                                           st.log_summary[d])))

\* What a command leaves on record: which one ran last, how it ended, what
\* the destination held when it started and whether it changed any file or
\* directory.
Ran(op, outcome, changed) ==
    [op |-> op, outcome |-> outcome, dataset |-> "", pattern |-> "", rows |-> 0,
     was_built |-> combined.exists, was_interrupted |-> interrupted,
     changed |-> changed]

\* generate_reports(data_root, result_root): how it ends and what it leaves.
RootMade == dirs \cup {"result", "root"}

\* The end of generate_reports after report.py ran (lines 182 to 193):
\* check=True turns a non-zero exit status into CalledProcessError, which
\* becomes SystemExit with that status.
Reported(out, stats) ==
    [out EXCEPT !.stats_out = stats,
                !.outcome = IF stats.rc # 0 THEN "SystemExit" ELSE "completed"]

\* The end of generate_reports after the loop left st (lines 172 to 193).
AfterLoop(st) ==
    LET looped == [outcome |-> st.raised, dirs |-> st.dirs,
                   log_summary |-> st.log_summary, combined |-> combined, rows |-> 0,
                   stats_out |-> stats_out, dataset |-> st.dataset,
                   pattern |-> st.pattern]
    IN  IF st.raised # "none" THEN looped
        ELSE IF st.summary_paths = <<>> THEN [looped EXCEPT !.outcome = "no_summaries"]
        ELSE Reported([looped EXCEPT !.rows = st.total_rows,
                                     !.combined = _combine_summaries(st.summary_paths,
                                                                     summaries, combined)],
                      report_main(top_summary, stats_out))

GenerateOutcome ==
    LET same == [outcome |-> "reused", dirs |-> RootMade, log_summary |-> log_summary,
                 combined |-> combined, rows |-> 0, stats_out |-> stats_out,
                 dataset |-> "", pattern |-> ""]
    IN  IF combined.exists THEN same
        ELSE IF ~data.exists THEN [same EXCEPT !.outcome = "FileNotFoundError"]
        ELSE IF _collect_log_dirs = <<>> THEN [same EXCEPT !.outcome = "no_datasets"]
        ELSE AfterLoop(GenerateLoop(_collect_log_dirs,
                          [dirs |-> RootMade, log_summary |-> log_summary,
                           summary_paths |-> <<>>, total_rows |-> 0, raised |-> "none",
                           dataset |-> "", pattern |-> ""]))

\* spm.py generate.
GenerateReports ==
    \E out \in {GenerateOutcome} :
        /\ pc = "idle"
        /\ dirs' = out.dirs
        /\ log_summary' = out.log_summary
        /\ combined' = out.combined
        /\ stats_out' = out.stats_out
        /\ interrupted' = (interrupted /\ out.combined = combined)
        /\ run' = [Ran("generate", out.outcome,
                       <<out.dirs, out.log_summary, out.combined>> #
                           <<dirs, log_summary, combined>>)
                   EXCEPT !.rows = out.rows, !.dataset = out.dataset,
                          !.pattern = out.pattern]
        /\ UNCHANGED <<stats_vars, parse_vars, summary_map, summaries, data, logs, pc,
                       top_summary, validate_vars, roundtrip_vars, web_vars>>

\* spm.py clean: clean_results(result_dir) on the result directory.
CleanResults ==
    /\ pc = "idle"
    /\ IF "result" \notin dirs
       THEN /\ run' = Ran("clean", "nothing", FALSE)
            /\ UNCHANGED <<dirs, combined, summaries, interrupted, report_vars>>
       ELSE /\ run' = Ran("clean", "removed", TRUE)
            /\ dirs' = {}
            /\ combined' = NoFile
            /\ summaries' = NoSummaries
            /\ interrupted' = FALSE
            /\ top_summary' = NoFile
            /\ stats_out' = NoStats
    /\ UNCHANGED <<stats_vars, parse_vars, summary_map, data, logs, log_summary, pc,
                   validate_vars, roundtrip_vars, web_vars>>

\* extract.py --dir <PerformanceLog of dataset d> --pattern <pattern>.
ExtractDir(d, pattern) ==
    \E r \in {process_dir(logs[d], pattern, log_summary[d])} :
        /\ pc = "idle"
        /\ data.entry[d] = "logdir"
        /\ log_summary' = [log_summary EXCEPT ![d] = r.file]
        /\ run' = [Ran("extract", IF r.rows <= 0 THEN "no_match" ELSE "wrote",
                       r.file # log_summary[d])
                   EXCEPT !.dataset = d, !.pattern = pattern, !.rows = r.rows]
        /\ UNCHANGED <<stats_vars, parse_vars, combine_vars, data, logs, dirs, interrupted, pc,
                     report_vars, validate_vars, roundtrip_vars, web_vars>>

\* The lines of the log files of the pipeline.
LineA7 == <<"TS", " ", "a", " ", "-", " ", "loading_time:", " ", "7", " ", "ms">>
LineB0 == <<"TS", " ", "B", " ", "-", " ", "elapsed:", " ", "0", " ", "ms">>
LineNoMatch == <<"a", " ", "-">>
PipelineLines == {LineA7, LineB0, LineNoMatch}

\* The log files: the lines of all of them, cut into the files in turn; a
\* file without lines is empty or not there.
Slots == << <<LabelsInOrder[1], "a_loading.log">>, <<LabelsInOrder[1], "b.log">>,
            <<LabelsInOrder[2], "b.log">> >>
SlotOf(l, n) == {i \in 1 .. Len(Slots) : Slots[i] = <<l, n>>}

LogFilesOf(ls) == {LogFile(ls)} \cup (IF ls = <<>> THEN {NoLogFile} ELSE {})

\* What earlier runs left under the result directory: nothing; a finished
\* build; or a build whose write of the combined file was interrupted after
\* the file was opened, before or after the header went out.
BuiltSummaries ==
    [l \in Labels |-> CsvFile(SummaryHeader, << << <<"a">>, <<"7">> >> >>)]
BuiltCombined == _combine_summaries(LabelsInOrder, BuiltSummaries, NoFile)
Remnants == {CsvFile(<<>>, <<>>), CsvFile(BuiltCombined.header, <<>>)}
BuiltDirs == {"result", "root"} \cup Labels

InitPipeline ==
    /\ data \in [exists : BOOLEAN, entry : [Labels -> {"absent", "nolog", "logdir"}]]
    /\ ~data.exists => \A l \in Labels : data.entry[l] = "absent"
    /\ \E all \in SeqsUpTo(PipelineLines, MaxLogLines) :
         \E c1 \in 0 .. Len(all) :
            \E c2 \in c1 .. Len(all) :
               LET part == <<SubSeq(all, 1, c1), SubSeq(all, c1 + 1, c2),
                             SubSeq(all, c2 + 1, Len(all))>>
               IN  \E f \in [1 .. Len(Slots) -> {NoLogFile} \cup {LogFile(part[i]) : i \in 1 .. 3}] :
                      /\ \A i \in 1 .. Len(Slots) : f[i] \in LogFilesOf(part[i])
                      /\ logs = [l \in Labels |-> [n \in FileNames |->
                                   IF SlotOf(l, n) = {} THEN NoLogFile
                                   ELSE f[CHOOSE i \in SlotOf(l, n) : TRUE]]]
    /\ \A l \in Labels : data.entry[l] # "logdir" =>
                            \A n \in FileNames : logs[l][n] = NoLogFile
    /\ log_summary = NoSummaries
    /\ \/ /\ dirs = {}
          /\ summaries = NoSummaries
          /\ combined = NoFile
          /\ interrupted = FALSE
       \/ /\ dirs = BuiltDirs
          /\ summaries = BuiltSummaries
          /\ combined = BuiltCombined
          /\ interrupted = FALSE
       \/ /\ dirs = BuiltDirs
          /\ summaries = BuiltSummaries
          /\ combined \in Remnants
          /\ interrupted = TRUE
    /\ run = NoRun
    /\ top_summary = NoFile
    /\ stats_out = NoStats
    /\ melted = NoRecords
    /\ verdict = NoVerdict
    /\ disk = NoDisk
    /\ written = NoWritten
    /\ merge = NoMerge
    /\ results = NoResults
    /\ page = NoPage
    /\ pc = "idle"
    /\ summary_map = <<>>
    /\ vals = <<>>
    /\ stat = NoCall
    /\ lines = <<>>
    /\ entries = <<>>

Next ==
    \/ GenerateReports
    \/ CleanResults
    \/ \E d \in Labels : \E pattern \in Patterns : ExtractDir(d, pattern)

Spec == InitPipeline /\ [][Next]_vars

(***************************************************************************)
(* webapp.py: _validate_dataset_requirements.                              *)
(*                                                                         *)
(* melted holds one record per sample: the service name as the file has    *)
(* it, a version and a loading time that is a number (_prepare_summary     *)
(* dropped the others, _load_summary the excluded services).  The          *)
(* validator uses the names and how often each occurs, so the records are  *)
(* the number of records under each name.                                  *)
(***************************************************************************)
RequiredServices == 24
MaxFillers == 23
MaxCount == 2

AutoTest == <<"AUTO TEST">>

\* str.upper() of a name.
UpperToken(t) ==
    CASE t = "auto test" -> "AUTO TEST"
      [] t = "Mail" -> "MAIL"
      [] OTHER -> t
Upper(s) == [i \in 1 .. Len(s) |-> UpperToken(s[i])]

\* The names of the model: the baseline in two spellings, one of them
\* padded; a service, plain and padded; and the services S01, S02, ...
Filler(i) == <<"S", Digits[(i \div 10) + 1], Digits[(i % 10) + 1]>>
Fillers == {Filler(i) : i \in 1 .. MaxFillers}
SpecialNames == {AutoTest, <<"auto test", " ">>, <<"Mail">>, <<" ", "Mail">>}
RawNames == SpecialNames \cup Fillers

\* Python's order of the stripped names: by code point, capitals first.
NameRank(s) ==
    IF s = AutoTest THEN 0
    ELSE IF s = <<"Mail">> THEN 1
    ELSE IF s[1] = "S" THEN 1 + IntOf(Tail(s))
    ELSE 2 + 99

RECURSIVE InsertService(_, _)
InsertService(n, s) ==
    IF s = <<>> THEN <<n>>
    ELSE IF NameRank(n) < NameRank(Head(s)) THEN <<n>> \o s
    ELSE <<Head(s)>> \o InsertService(n, Tail(s))

RECURSIVE SortedServices(_)
SortedServices(S) ==
    IF S = {} THEN <<>>
    ELSE LET x == CHOOSE y \in S : TRUE IN InsertService(x, SortedServices(S \ {x}))

RECURSIVE SumCounts(_, _)
SumCounts(S, m) ==
    IF S = {} THEN 0
    ELSE LET x == CHOOSE y \in S : TRUE IN m[x] + SumCounts(S \ {x}, m)

\* melted.empty
IsEmptyFrame(m) == \A n \in DOMAIN m : m[n] = 0

\* cleaned["service"]: the stripped names of the records.
CleanedServices(m) == {Strip(n) : n \in {x \in DOMAIN m : m[x] > 0}}

\* cleaned.groupby("service")["loading_time"].count(): the stripped names in
\* sorted order (index) and the number of records of each (count).
ServiceCounts(m) ==
    [index |-> SortedServices(CleanedServices(m)),
     count |-> [s \in CleanedServices(m) |->
                   SumCounts({n \in DOMAIN m : m[n] > 0 /\ Strip(n) = s}, m)]]

\* The warnings and the error, as the values their messages are made of.
CountWarning(service_count) == [kind |-> "count", found |-> service_count]
MismatchWarning(baseline, mismatched) ==
    [kind |-> "mismatch", baseline |-> baseline, list |-> mismatched]
NoError == <<>>
MissingAutoTest == <<"missing AUTO TEST">>

\* Lines 367 to 370.
ServiceCountWarnings(service_count) ==
    IF service_count # RequiredServices THEN <<CountWarning(service_count)>> ELSE <<>>

\* Lines 374 to 378: the first name of the index that is AUTO TEST in upper
\* case; <<>> stands for None.
IsAuto(s) == Upper(s) = AutoTest
AutoService(index) ==
    IF SelectSeq(index, IsAuto) = <<>> THEN <<>> ELSE <<Head(SelectSeq(index, IsAuto))>>

\* Lines 386 to 391: the services whose count differs from the baseline.
RECURSIVE FirstMismatchOnly(_, _, _, _)
FirstMismatchOnly(index, count, auto_service, baseline) ==
    IF index = <<>> THEN <<>>
    ELSE IF Head(index) # auto_service /\ count[Head(index)] # baseline
         THEN <<[service |-> Head(index), count |-> count[Head(index)]]>>
         ELSE FirstMismatchOnly(Tail(index), count, auto_service, baseline)
RECURSIVE Mismatched(_, _, _, _)
Mismatched(index, count, auto_service, baseline) ==
    IF index = <<>> THEN <<>>
    ELSE (IF Head(index) # auto_service /\ count[Head(index)] # baseline
          THEN <<[service |-> Head(index), count |-> count[Head(index)]]>>
          ELSE <<>>)
         \o Mismatched(Tail(index), count, auto_service, baseline)

\* Lines 393 to 399.
WithMismatches(warnings, baseline, mismatched) ==
    [called |-> TRUE,
     warnings |-> IF mismatched # <<>>
                  THEN Append(warnings, MismatchWarning(baseline, mismatched))
                  ELSE warnings,
     error |-> NoError]

\* Lines 372 to 399, after the service count rule.
AfterCount(warnings, counts, auto) ==
    IF auto = <<>> THEN [called |-> TRUE, warnings |-> warnings, error |-> MissingAutoTest]
    ELSE WithMismatches(warnings, counts.count[auto[1]],
                        Mismatched(counts.index, counts.count, auto[1],
                                   counts.count[auto[1]]))

Validated(counts) ==
    AfterCount(ServiceCountWarnings(Len(counts.index)), counts, AutoService(counts.index))

_validate_dataset_requirements(m) ==
    IF IsEmptyFrame(m) THEN [called |-> TRUE, warnings |-> <<>>, error |-> NoError]
    ELSE Validated(ServiceCounts(m))

\* The record sets: any number of records under each special name; the
\* first k of the services S01, S02, ... with one record each, but for the
\* last of them, which may have more.
FillerCounts(k, last) ==
    [n \in Fillers |-> IF IntOf(Tail(n)) > k THEN 0
                       ELSE IF IntOf(Tail(n)) = k THEN last ELSE 1]
RecordSets ==
    {sp @@ FillerCounts(k, last) :
        sp \in [SpecialNames -> 0 .. MaxCount],
        k \in 0 .. MaxFillers, last \in 1 .. MaxCount}

InitValidate ==
    /\ melted \in RecordSets
    /\ verdict = NoVerdict
    /\ disk = NoDisk
    /\ written = NoWritten
    /\ merge = NoMerge
    /\ results = NoResults
    /\ page = NoPage
    /\ pc = "validate"
    /\ vals = <<>>
    /\ stat = NoCall
    /\ lines = <<>>
    /\ entries = <<>>
    /\ summary_map = <<>>
    /\ summaries = NoSummaries
    /\ combined = NoFile
    /\ data = NoData
    /\ logs = NoLogs
    /\ log_summary = NoSummaries
    /\ dirs = {}
    /\ interrupted = FALSE
    /\ run = NoRun
    /\ top_summary = NoFile
    /\ stats_out = NoStats

Validate ==
    /\ pc = "validate"
    /\ verdict' = _validate_dataset_requirements(melted)
    /\ pc' = "validated"
    /\ UNCHANGED <<stats_vars, parse_vars, combine_vars, pipeline_vars, report_vars, melted, roundtrip_vars, web_vars>>

NextValidate == Validate

SpecValidate == InitValidate /\ [][NextValidate]_vars

(***************************************************************************)
(* The round trip of a summary: process_dir writes summary.csv through     *)
(* csv.writer (extract.py lines 55 to 59), _combine_summaries reads it     *)
(* through csv.reader (spm.py lines 91 to 110).                            *)
(*                                                                         *)
(* The text of a file is its lines, each a sequence of tokens as in a log  *)
(* line; the delimiter, the quote character and the line terminator the    *)
(* writer puts after every row are one token each.                         *)
(***************************************************************************)
Comma == ","
Quote == "\""
CrLf == "\r\n"

\* csv.writer with the default dialect (QUOTE_MINIMAL, doublequote): a field
\* is quoted when it holds the delimiter, the quote character or a character
\* of the line terminator, and its quote characters are doubled.
NeedsQuotes(field) == \E i \in 1 .. Len(field) : field[i] \in {Comma, Quote, CrLf}

RECURSIVE Doubled(_)
Doubled(field) ==
    IF field = <<>> THEN <<>>
    ELSE (IF Head(field) = Quote THEN <<Quote, Quote>> ELSE <<Head(field)>>)
         \o Doubled(Tail(field))

CsvFieldUnquoted(field) == field
CsvField(field) ==
    IF NeedsQuotes(field) THEN <<Quote>> \o Doubled(field) \o <<Quote>> ELSE field

RECURSIVE CsvJoin(_)
CsvJoin(fields) ==
    IF fields = <<>> THEN <<>>
    ELSE IF Len(fields) = 1 THEN CsvField(fields[1])
    ELSE CsvField(Head(fields)) \o <<Comma>> \o CsvJoin(Tail(fields))

\* writer.writerow(row): a row of one empty field is written as "".
writerow(row) == IF row = << <<>> >> THEN <<Quote, Quote>> ELSE CsvJoin(row)

\* out_path.open("w") and the writerow and writerows calls: the text that
\* replaces whatever the file held.
CsvText(file) ==
    TextFile(<<writerow(file.header)>> \o
             [i \in 1 .. Len(file.rows) |-> writerow(file.rows[i])])

\* csv.reader with the default dialect (not strict): the state machine over
\* the characters of the file, r holding the state, the field and the row
\* under construction and the rows finished.
ReaderStart == [state |-> "START_RECORD", field |-> <<>>, fields |-> <<>>, rows |-> <<>>]
AddChar(r, c, state) == [r EXCEPT !.field = Append(@, c), !.state = state]
SaveField(r, state) ==
    [r EXCEPT !.fields = Append(@, r.field), !.field = <<>>, !.state = state]
EndRecord(r) ==
    [r EXCEPT !.rows = Append(@, r.fields), !.fields = <<>>, !.field = <<>>,
              !.state = "START_RECORD"]

ParseChar(r, c) ==
    IF r.state = "START_RECORD" /\ c = CrLf THEN EndRecord(r)
    ELSE IF r.state \in {"START_RECORD", "START_FIELD"}
    THEN IF c = CrLf THEN EndRecord(SaveField(r, "START_FIELD"))
         ELSE IF c = Quote THEN [r EXCEPT !.state = "IN_QUOTED_FIELD"]
         ELSE IF c = Comma THEN SaveField(r, "START_FIELD")
         ELSE AddChar(r, c, "IN_FIELD")
    ELSE IF r.state = "IN_FIELD"
    THEN IF c = CrLf THEN EndRecord(SaveField(r, "START_FIELD"))
         ELSE IF c = Comma THEN SaveField(r, "START_FIELD")
         ELSE AddChar(r, c, "IN_FIELD")
    ELSE IF r.state = "IN_QUOTED_FIELD"
    THEN IF c = Quote THEN [r EXCEPT !.state = "QUOTE_IN_QUOTED_FIELD"]
         ELSE AddChar(r, c, "IN_QUOTED_FIELD")
    ELSE IF c = Quote THEN AddChar(r, c, "IN_QUOTED_FIELD")
         ELSE IF c = Comma THEN SaveField(r, "START_FIELD")
         ELSE IF c = CrLf THEN EndRecord(SaveField(r, "START_FIELD"))
         ELSE AddChar(r, c, "IN_FIELD")

RECURSIVE ParseChars(_, _)
ParseChars(r, chars) ==
    IF chars = <<>> THEN r ELSE ParseChars(ParseChar(r, Head(chars)), Tail(chars))

\* The end of the file: a field or a quoted field under construction ends
\* the last row.
AtEof(r) ==
    IF r.field # <<>> \/ r.state = "IN_QUOTED_FIELD"
    THEN Append(r.rows, Append(r.fields, r.field)) ELSE r.rows

\* The rows csv.reader yields for a text.
CsvRows(text) ==
    AtEof(ParseChars(ReaderStart,
                     Flatten([i \in 1 .. Len(text) |-> Append(text[i], CrLf)])))

\* header = next(reader, None) and the rows after it.
HeaderAndRows(rows) ==
    IF rows = <<>> THEN CsvFile(<<>>, <<>>) ELSE CsvFile(Head(rows), Tail(rows))

\* csv_path.exists(), open and csv.reader(fh): the file as the combiner
\* sees it.
CsvRead(f) == IF ~f.exists THEN NoFile ELSE HeaderAndRows(CsvRows(f.text))

\* The log lines of the round trip: a service seen twice, one holding the
\* delimiter and a value of two digits, one opening with the quote character
\* and a value with a leading zero, an empty one, and a line without sample.
LineComma12 == <<"TS", " ", "a", Comma, "b", " ", "-", " ", "loading_time:", " ", "1", "2", " ", "ms">>
LineQuote07 == <<"TS", " ", Quote, "a", " ", "-", " ", "elapsed:", " ", "0", "7", " ", "ms">>
LineEmpty3 == <<"TS", " ", " ", "-", " ", "loading_time:", " ", "3", " ", "ms">>
RoundTripLines == {LineA7, LineComma12, LineQuote07, LineEmpty3, LineNoMatch}

\* A summary.csv that was there before: a row whose value is no integer
\* among rows that are read.
StaleText ==
    TextFile(<< <<"service", Comma, "loading_time_ms">>, <<"old", Comma, "x">>,
                <<"old", Comma, "5">> >>)

InitRoundTrip ==
    /\ data = [exists |-> TRUE, entry |-> [l \in Labels |-> "logdir"]]
    /\ \E all \in SeqsUpTo(RoundTripLines, MaxLogLines) :
         \E c1 \in 0 .. Len(all) :
            \E c2 \in c1 .. Len(all) :
               LET part == <<SubSeq(all, 1, c1), SubSeq(all, c1 + 1, c2),
                             SubSeq(all, c2 + 1, Len(all))>>
               IN  logs = [l \in Labels |-> [n \in FileNames |->
                              IF SlotOf(l, n) = {} THEN NoLogFile
                              ELSE LogFile(part[CHOOSE i \in SlotOf(l, n) : TRUE])]]
    /\ disk \in {NoDisk, [l \in Labels |-> StaleText]}
    /\ written = NoWritten
    /\ merge = NoMerge
    /\ results = NoResults
    /\ page = NoPage
    /\ pc = "roundtrip"
    /\ log_summary = NoSummaries
    /\ dirs = {}
    /\ interrupted = FALSE
    /\ run = NoRun
    /\ summary_map = <<>>
    /\ summaries = NoSummaries
    /\ combined = NoFile
    /\ top_summary = NoFile
    /\ stats_out = NoStats
    /\ melted = NoRecords
    /\ verdict = NoVerdict
    /\ vals = <<>>
    /\ stat = NoCall
    /\ lines = <<>>
    /\ entries = <<>>

\* process_dir(dir_path, file_glob) on the PerformanceLog directory of d.
ProcessDir(d, pattern) ==
    \E r \in {process_dir(logs[d], pattern, NoFile)} :
        /\ pc = "roundtrip"
        /\ IF r.rows = 0
           THEN UNCHANGED <<disk, written>>
           ELSE /\ disk' = [disk EXCEPT ![d] = CsvText(r.file)]
                /\ written' = [written EXCEPT ![d] = AllEntries(logs[d], pattern)]
        /\ UNCHANGED <<stats_vars, parse_vars, combine_vars, pipeline_vars, report_vars,
                       validate_vars, pc, web_vars>>

\* _combine_summaries(summary_map, output_path) on the summaries of all
\* versions.
CombineWritten ==
    /\ pc = "roundtrip"
    /\ pc' = "recombined"
    /\ summary_map' = LabelsInOrder
    /\ combined' = _combine_summaries(LabelsInOrder, [l \in Labels |-> CsvRead(disk[l])],
                                      combined)
    /\ UNCHANGED <<stats_vars, parse_vars, summaries, pipeline_vars, report_vars,
                   validate_vars, roundtrip_vars, web_vars>>

NextRoundTrip ==
    \/ \E d \in Labels : \E pattern \in Patterns : ProcessDir(d, pattern)
    \/ CombineWritten

SpecRoundTrip == InitRoundTrip /\ [][NextRoundTrip]_vars

(***************************************************************************)
(* spm.py, merge: merge_data_folders and _merge_single_source.             *)
(*                                                                         *)
(* A source of the call is a path that does not exist, the destination     *)
(* itself, or a folder: a tree with a file "f", and "d" a file or a        *)
(* directory that may hold a file "g".  The files of the i-th source hold  *)
(* the text Texts[i]; the files the destination starts with hold "old".    *)
(***************************************************************************)
MaxSources == 2
Texts == <<"s1", "s2", "s3", "s4">>
Old == "old"

MissingSource == [kind |-> "missing", tree |-> EmptyTree]
DestinationItself == [kind |-> "destination", tree |-> EmptyTree]
Folder(tree) == [kind |-> "folder", tree |-> tree]
Shape(f, d, g) == [p \in Paths |-> CASE p = "f" -> f [] p = "d" -> d [] p = "d/g" -> g
                                     [] OTHER -> Absent]
SourceShapes ==
    {Shape(f, d, Absent) : f \in {Absent, File("src")}, d \in {Absent, File("src"), Dir}}
    \cup {Shape(f, Dir, File("src")) : f \in {Absent, File("src")}}
SourceEntries == {MissingSource, DestinationItself} \cup {Folder(t) : t \in SourceShapes}
DestTrees ==
    {Shape(f, d, Absent) : f \in {Absent, File(Old)}, d \in {Absent, File(Old), Dir}}
    \cup {Shape(f, Dir, File(Old)) : f \in {Absent, File(Old)}}

\* dst_file.exists()
Exists(tree, p) == tree[p].kind # "absent"

\* shutil.copy2(src_file, dst_file): into the directory when dst_file is one.
copy2(tree, p, text) ==
    IF tree[p].kind = "dir" THEN [tree EXCEPT !["d/d"] = File(text)]
    ELSE [tree EXCEPT ![p] = File(text)]

\* Lines 209 to 220: one file of the walk.
MergeFile(st, p, text, overwrite) ==
    IF Exists(st.dest, p)
    THEN IF overwrite
         THEN [st EXCEPT !.dest = copy2(st.dest, p, text), !.overwritten = @ + 1]
         ELSE [st EXCEPT !.skipped = @ + 1]
    ELSE [st EXCEPT !.dest = copy2(st.dest, p, text), !.copied = @ + 1]

\* The files of one directory of the source, in turn.
RECURSIVE MergeFiles(_, _, _, _, _)
MergeFiles(st, src, ps, text, overwrite) ==
    IF ps = <<>> THEN st
    ELSE MergeFiles(IF src[Head(ps)].kind = "file"
                    THEN MergeFile(st, Head(ps), text, overwrite) ELSE st,
                    src, Tail(ps), text, overwrite)

\* Line 207, target_root.mkdir(parents=True, exist_ok=True), for the
\* directory "d": FileExistsError when the destination has a file there.
MkdirD(st) ==
    IF st.dest["d"].kind = "file" THEN [st EXCEPT !.outcome = "FileExistsError"]
    ELSE [st EXCEPT !.dest["d"] = Dir]

\* The directory "d" of the walk: its mkdir, then its files.
MergeSubdir(st, src, text, overwrite) ==
    IF src["d"].kind # "dir" THEN st
    ELSE IF MkdirD(st).outcome = "FileExistsError" THEN MkdirD(st)
    ELSE MergeFiles(MkdirD(st), src, <<"d/g">>, text, overwrite)

\* os.walk is top-down: the files of the root, then the directory "d".
_merge_single_source(st, src, text, overwrite) ==
    MergeSubdir(MergeFiles(st, src, <<"f", "d">>, text, overwrite), src, text, overwrite)

\* Lines 231 to 242: the sources in turn; a raised error ends the call.
RECURSIVE MergeSources(_, _, _, _)
MergeSources(st, sources, i, overwrite) ==
    IF i > Len(sources) \/ st.outcome = "FileExistsError" THEN st
    ELSE IF sources[i].kind \in {"missing", "destination"}
         THEN MergeSources(st, sources, i + 1, overwrite)
         ELSE MergeSources(_merge_single_source(st, sources[i].tree, Texts[i], overwrite),
                           sources, i + 1, overwrite)

\* The whole call; the totals are printed when no error was raised.
Finished(st) ==
    IF st.outcome = "FileExistsError" THEN st
    ELSE [st EXCEPT !.outcome = "done", !.printed = TRUE]
merge_data_folders(m) ==
    Finished(MergeSources([m EXCEPT !.outcome = "running"], m.sources, 1, m.overwrite))

InitMerge ==
    /\ \E sources \in SeqsUpTo(SourceEntries, MaxSources) \ {<<>>},
          dest \in DestTrees, overwrite \in BOOLEAN :
          merge = [NoMerge EXCEPT !.sources = sources, !.overwrite = overwrite,
                                  !.before = dest, !.dest = dest, !.outcome = "asked"]
    /\ results = NoResults
    /\ page = NoPage
    /\ pc = "merge"
    /\ vals = <<>>
    /\ stat = NoCall
    /\ lines = <<>>
    /\ entries = <<>>
    /\ summary_map = <<>>
    /\ summaries = NoSummaries
    /\ combined = NoFile
    /\ data = NoData
    /\ logs = NoLogs
    /\ log_summary = NoSummaries
    /\ dirs = {}
    /\ interrupted = FALSE
    /\ run = NoRun
    /\ top_summary = NoFile
    /\ stats_out = NoStats
    /\ melted = NoRecords
    /\ verdict = NoVerdict
    /\ disk = NoDisk
    /\ written = NoWritten

Merge ==
    /\ pc = "merge"
    /\ merge' = merge_data_folders(merge)
    /\ pc' = "merged"
    /\ UNCHANGED <<stats_vars, parse_vars, combine_vars, pipeline_vars, report_vars,
                   validate_vars, roundtrip_vars, results, page>>

NextMerge == Merge

SpecMerge == InitMerge /\ [][NextMerge]_vars

(***************************************************************************)
(* Claims about parse_log_lines (SpecParse).                               *)
(*                                                                         *)
(* The grammar, stated from the keyword: a line is well formed at keyword  *)
(* position k when the timestamp opens it, whitespace follows, a dash      *)
(* stands before k with whitespace on both sides, and after k come         *)
(* whitespace, digits, whitespace and the unit.  What lies between the     *)
(* timestamp and the dash is the label with its surrounding whitespace.    *)
(***************************************************************************)
AllIn(line, from, to, Class(_)) == \A i \in from .. to : Class(line[i])

IsKeyword(c) == Fold(c) \in {"loading_time:", "elapsed:"}
UnitExact(c) == c = "ms"
UnitAnyCase(c) == Fold(c) = "ms"

DashBefore(line, k) ==
    {d \in 4 .. (k - 2) :
        /\ line[d] = "-"
        /\ AllIn(line, d + 1, k - 1, IsWs)
        /\ IsWs(line[2])
        /\ IsWs(line[d - 1])}

DigitsAfter(line, k, Unit(_)) ==
    {se \in ((k + 2) .. Len(line)) \X ((k + 2) .. Len(line)) :
        /\ se[1] <= se[2]
        /\ AllIn(line, k + 1, se[1] - 1, IsWs)
        /\ AllIn(line, se[1], se[2], IsDigit)
        /\ \E u \in (se[2] + 2) .. Len(line) :
              /\ AllIn(line, se[2] + 1, u - 1, IsWs)
              /\ Unit(line[u])}

WellFormedAt(line, k, Unit(_)) ==
    /\ line[1] = "TS"
    /\ IsKeyword(line[k])
    /\ DashBefore(line, k) # {}
    /\ DigitsAfter(line, k, Unit) # {}

KeywordsOf(line, Unit(_)) == {k \in 1 .. Len(line) : WellFormedAt(line, k, Unit)}

InGrammar(line, Unit(_)) == KeywordsOf(line, Unit) # {}

\* The label without the whitespace around it, and the number the digits
\* denote, both stated without the parser's operators.
TrimOf(s) ==
    LET inked == {i \in 1 .. Len(s) : ~IsWs(s[i])}
    IN  IF inked = {} THEN <<>>
        ELSE LET a == CHOOSE i \in inked : \A j \in inked : i <= j
                 b == CHOOSE i \in inked : \A j \in inked : i >= j
             IN  SubSeq(s, a, b)

RECURSIVE Pow10(_)
Pow10(n) == IF n = 0 THEN 1 ELSE 10 * Pow10(n - 1)

RECURSIVE Denotes(_, _)
Denotes(ds, i) ==
    IF i > Len(ds) THEN 0
    ELSE DigitVal(ds[i]) * Pow10(Len(ds) - i) + Denotes(ds, i + 1)

\* The pair a well-formed line encodes: the label is matched lazily, so the
\* first keyword that makes the line well formed ends it.
Encoded(line, Unit(_)) ==
    LET ks == KeywordsOf(line, Unit)
        k == CHOOSE x \in ks : \A y \in ks : x <= y
        d == CHOOSE x \in DashBefore(line, k) : TRUE
        se == CHOOSE x \in DigitsAfter(line, k, Unit) : TRUE
    IN  Sample(TrimOf(SubSeq(line, 2, d - 1)), Denotes(SubSeq(line, se[1], se[2]), 1))

Expected(ls, Unit(_)) ==
    Flatten([i \in 1 .. Len(ls) |->
                IF InGrammar(ls[i], Unit) THEN <<Encoded(ls[i], Unit)>> ELSE <<>>])

\* C1 (as stated): parse_log_lines yields, in line order, exactly one record
\* (trimmed label, integer) for every line that matches the grammar with the
\* keyword compared case-insensitively and the unit written "ms", and
\* nothing for any other line.
C1_AsStated == pc = "parsed" => entries = Expected(lines, UnitExact)

\* C1 (amended): the same with the unit compared case-insensitively as well:
\* re.IGNORECASE covers the whole pattern, so "MS" and "Ms" end a matching
\* line too.
C1_OneRecordPerMatchingLine == pc = "parsed" => entries = Expected(lines, UnitAnyCase)

C1_Witness ==
    /\ pc = "parsed"
    /\ lines = << <<"a", " ", "-">>,
                  <<"TS", " ", "a", " ", "-", " ", "ELAPSED:", " ", "7", " ", "MS">> >>
    /\ entries = <<Sample(<<"a">>, 7)>>

(***************************************************************************)
(* Claims about _combine_summaries (SpecCombine).                          *)
(***************************************************************************)
MapKeys == {summary_map[i] : i \in 1 .. Len(summary_map)}

\* The versions of the mapping in sorted label order.
IsMapKey(l) == l \in MapKeys
KeysInOrder == SelectSeq(LabelsInOrder, IsMapKey)

\* The usable rows of a version's summary, as (service, value) pairs in the
\* order of the file: the file is there, its header starts with "service",
\* the row has two fields and the second one is an integer.
IsUsableRow(row) == Len(row) >= 2 /\ PyInt(row[2]).ok
UsableOf(l) ==
    LET f == summaries[l]
    IN  IF f.exists /\ f.header # <<>> /\ f.header[1] = ServiceWord
        THEN LET rows == SelectSeq(f.rows, IsUsableRow)
             IN  [i \in 1 .. Len(rows) |->
                     [service |-> Strip(rows[i][1]), v |-> PyInt(rows[i][2]).v]]
        ELSE <<>>

\* The services met when walking the versions in sorted label order and the
\* rows of each in file order.
ServiceWalk ==
    Flatten([k \in 1 .. Len(KeysInOrder) |->
                [i \in 1 .. Len(UsableOf(KeysInOrder[k])) |->
                    UsableOf(KeysInOrder[k])[i].service]])

FirstAt(s, x) == CHOOSE i \in 1 .. Len(s) : s[i] = x /\ \A j \in 1 .. (i - 1) : s[j] # x

OutServices == [i \in 1 .. Len(combined.rows) |-> combined.rows[i][1]]

\* C3: the services of the combined table are those with a usable row, each
\* in one block of rows, the blocks in first-seen order of the walk over the
\* versions in sorted label order and each version's rows in file order.
C3_FirstSeenServiceOrder ==
    (pc = "combined" /\ ServiceWalk # <<>>) =>
        /\ combined.exists
        /\ Elems(OutServices) = Elems(ServiceWalk)
        /\ \A i, j, k \in 1 .. Len(OutServices) :
              (i < j /\ j < k /\ OutServices[i] = OutServices[k])
                  => OutServices[j] = OutServices[i]
        /\ \A i, j \in 1 .. Len(OutServices) :
              (i < j /\ OutServices[i] # OutServices[j])
                  => FirstAt(ServiceWalk, OutServices[i]) < FirstAt(ServiceWalk, OutServices[j])

C3_Witness ==
    /\ pc = "combined"
    /\ summary_map = <<"2.0.1.9", "2.0.1.10">>
    /\ summaries["2.0.1.10"] = CsvFile(SummaryHeader, << << <<" ", "Y">>, <<" ", "7">> >> >>)
    /\ summaries["2.0.1.9"] =
          CsvFile(SummaryHeader, << << <<"X">>, Txt200 >>, << <<" ", "Y">>, <<" ", "7">> >> >>)
    /\ OutServices = << <<"Y">>, <<"X">> >>

\* The values of a service in a version, in file order.
ValuesOf(l, service) ==
    LET HasService(u) == u.service = service
        us == SelectSeq(UsableOf(l), HasService)
    IN  [i \in 1 .. Len(us) |-> us[i].v]

RowsOfService(service) ==
    LET HasService(row) == row[1] = service
    IN  SelectSeq(combined.rows, HasService)

\* C4: for every service the combined table holds exactly maxlen rows,
\* maxlen the largest number of values a version has for it; row i holds in
\* each version's column that version's i-th value, or a blank when the
\* version has fewer than i values.
C4_PositionalAlignment ==
    (pc = "combined" /\ ServiceWalk # <<>>) =>
        /\ combined.exists
        /\ combined.header = <<ServiceWord>> \o [k \in 1 .. Len(KeysInOrder) |-> <<KeysInOrder[k]>>]
        /\ \A r \in 1 .. Len(combined.rows) : combined.rows[r][1] \in Elems(ServiceWalk)
        /\ \A service \in Elems(ServiceWalk) :
              LET rows == RowsOfService(service)
                  lens == {Len(ValuesOf(l, service)) : l \in MapKeys}
              IN  /\ Len(rows) \in lens
                  /\ \A n \in lens : n <= Len(rows)
                  /\ \A i \in 1 .. Len(rows) :
                        /\ Len(rows[i]) = 1 + Len(KeysInOrder)
                        /\ \A k \in 1 .. Len(KeysInOrder) :
                              LET values == ValuesOf(KeysInOrder[k], service)
                                  cell == rows[i][k + 1]
                              IN  IF i <= Len(values)
                                  THEN PyInt(cell).ok /\ PyInt(cell).v = values[i]
                                  ELSE cell = <<>>

C4_Witness ==
    /\ pc = "combined"
    /\ summaries["2.0.1.10"] = CsvFile(SummaryHeader, << << <<"X">>, Txt100 >>, << <<"X">>, Txt200 >> >>)
    /\ summaries["2.0.1.9"] = CsvFile(SummaryHeader, << << <<"X">>, Txt150 >> >>)
    /\ combined.rows = << << <<"X">>, Txt100, Txt150 >>, << <<"X">>, Txt200, <<>> >> >>

(***************************************************************************)
(* Claims about the statistics functions (SpecStats).                      *)
(***************************************************************************)
Called(f) == stat.fn = f

\* The k-th smallest value of s (1-based), stated by counting.
Kth(s, k) ==
    CHOOSE x \in Elems(s) :
        /\ Cardinality({i \in 1 .. Len(s) : s[i] < x}) < k
        /\ k <= Cardinality({i \in 1 .. Len(s) : s[i] <= x})

\* C8: avg, min, max and median of the empty list are 0; min and max of a
\* non-empty list are its smallest and largest element; avg and median of a
\* one-element list [x] are x.
C8_EmptyExtremaSingleton ==
    stat.fn # "none" =>
        /\ stat.arg = <<>> => stat.out = 0
        /\ (Called("min") /\ stat.arg # <<>>) =>
               /\ stat.out \in Elems(stat.arg)
               /\ \A x \in Elems(stat.arg) : stat.out <= x
        /\ (Called("max") /\ stat.arg # <<>>) =>
               /\ stat.out \in Elems(stat.arg)
               /\ \A x \in Elems(stat.arg) : stat.out >= x
        /\ ((Called("avg") \/ Called("median")) /\ Len(stat.arg) = 1) =>
               stat.out = stat.arg[1]

C8_Witness ==
    /\ Called("min")
    /\ stat.arg = <<7, 2, 4>>
    /\ stat.out = 2

\* C9: the median of a non-empty list is the middle element of its ascending
\* order when the count is odd, and avg of the two middle elements when it is
\* even; the list handed in is left as it was.
C9_MedianMiddle ==
    (Called("median") /\ stat.arg # <<>>) =>
        LET n == Len(stat.arg)
        IN  /\ n % 2 = 1 => stat.out = Kth(stat.arg, (n + 1) \div 2)
            /\ n % 2 = 0 =>
                   stat.out = _avg(<<Kth(stat.arg, n \div 2), Kth(stat.arg, n \div 2 + 1)>>)
            /\ stat.arg = <<10, 20, 30>> => stat.out = 20
            /\ stat.arg = <<10, 20>> => stat.out = 15
            /\ vals = stat.arg

C9_Witness ==
    /\ Called("median")
    /\ stat.arg = <<20, 10>>
    /\ stat.out = 15
    /\ vals = <<20, 10>>

\* C10: avg of a non-empty list is an integer nearest to the exact mean, and
\* an exact .5 tie rounds the same way in avg and in median: whenever the mean
\* of the list is the tie value (a + b) / 2 of a pair, avg of the list and
\* median of the pair are the same integer.
AbsInt(x) == IF x < 0 THEN -x ELSE x

C10_NearestAndOneTieRule ==
    (Called("avg") /\ stat.arg # <<>>) =>
        LET n == Len(stat.arg)
            sum == SumSeq(stat.arg)
        IN  /\ AbsInt(stat.out * n - sum) * 2 <= n
            /\ \A a, b \in StatVals :
                   ((a + b) % 2 = 1 /\ (a + b) * n = 2 * sum) =>
                       _median(<<a, b>>) = stat.out

C10_Witness ==
    /\ Called("avg")
    /\ stat.arg = <<10, 15>>
    /\ stat.out = 12
    /\ _median(<<15, 10>>) = 12

(***************************************************************************)
(* Claims about the commands (Spec).                                       *)
(***************************************************************************)
\* The entries of the files of a directory that match a pattern, file after
\* file in ascending order of name, each file's from its first line on.
InEncounterOrder(dir, pattern) ==
    Flatten([i \in 1 .. Len(FileNamesInOrder) |->
                LET n == FileNamesInOrder[i]
                IN  IF dir[n].exists /\ MatchesGlob(n, pattern)
                    THEN Flatten([j \in 1 .. Len(dir[n].lines) |-> ParseLine(dir[n].lines[j])])
                    ELSE <<>>])

RowOf(e) == <<e.service, StrOf(e.ms)>>

\* C2: the rows process_dir writes for a directory are the samples of its
\* matching files in file-then-line encounter order: files in ascending
\* order of path, the lines of a file in their order, nothing sorted or
\* grouped by service, and the count it returns is their number.
C2_FileThenLineOrder ==
    (run.op = "extract" /\ run.outcome = "wrote") =>
        LET want == InEncounterOrder(logs[run.dataset], run.pattern)
            got == log_summary[run.dataset]
        IN  /\ got.exists
            /\ got.header = SummaryHeader
            /\ run.rows = Len(want)
            /\ got.rows = [i \in 1 .. Len(want) |-> RowOf(want[i])]

\* Two files with samples, a and B in the first and a in the second: the
\* rows are a, B, a, neither sorted nor grouped by service.
C2_Witness ==
    /\ run.op = "extract"
    /\ run.outcome = "wrote"
    /\ run.pattern = "*.log"
    /\ run.dataset = LabelsInOrder[1]
    /\ logs[run.dataset]["a_loading.log"] = LogFile(<<LineA7, LineB0>>)
    /\ logs[run.dataset]["b.log"] = LogFile(<<LineA7>>)
    /\ log_summary[run.dataset].rows =
           << << <<"a">>, <<"7">> >>, << <<"B">>, <<"0">> >>, << <<"a">>, <<"7">> >> >>

\* A version has a parsable sample: one of the datasets holds, in the files
\* generate_reports would read, a line that yields a sample.
SampledDataset(d) ==
    /\ data.exists
    /\ data.entry[d] = "logdir"
    /\ AllEntries(logs[d], _determine_pattern(logs[d])) # <<>>

HasSamples == \E d \in Labels : SampledDataset(d)

DatasetsWithSamples == SelectSeq(LabelsInOrder, SampledDataset)

\* C5, as stated: a generate run that starts with no combined artifact at
\* the destination, over a data root where some version has a parsable
\* sample, completes and leaves the combined artifact, whose header names
\* the versions that have samples.
C5_AsStated ==
    (run.op = "generate" /\ ~run.was_built /\ HasSamples) =>
        /\ run.outcome = "completed"
        /\ combined.exists
        /\ combined.header = <<ServiceWord>> \o
               [i \in 1 .. Len(DatasetsWithSamples) |-> <<DatasetsWithSamples[i]>>]

\* C6, as stated: a generate run on a destination that holds the combined
\* artifact reuses it and changes nothing; the artifact goes away only by
\* clean; and a generate run on the destination as clean leaves it, without
\* the artifact, computes the artifact again.
C6_AsStated ==
    /\ (run.op = "generate" /\ run.was_built) =>
           (run.outcome = "reused" /\ ~run.changed)
    /\ (run.was_built /\ ~combined.exists) => run.op = "clean"
    /\ (run.op = "generate" /\ ~run.was_built /\ HasSamples) =>
           (run.outcome = "completed" /\ combined.exists)

\* C7, as stated: a generate run that finds the remnant of an interrupted
\* write at the destination does not reuse it and leaves a complete
\* artifact in its place.
C7_AsStated ==
    (run.op = "generate" /\ run.was_interrupted /\ HasSamples) =>
        /\ run.outcome # "reused"
        /\ ~interrupted

(***************************************************************************)
(* Claims about report.py main (SpecReport).                               *)
(***************************************************************************)
\* report.py ran on a table it accepts.
ReportRan == pc = "reported" /\ stats_out.rc = 0

VersionsOf == Tail(top_summary.header)

\* The samples of the j-th version in the table, or of one service only:
\* the cells of its column that hold an integer, from the first row down.
\* A blank cell is no sample.
SamplesIn(j, keep(_)) ==
    Flatten([r \in 1 .. Len(top_summary.rows) |->
                LET row == top_summary.rows[r]
                IN  IF row # <<>> /\ keep(row[1]) /\ Len(row) > j /\ PyInt(row[j + 1]).ok
                    THEN <<PyInt(row[j + 1]).v>> ELSE <<>>])

AnyService(s) == TRUE
Pooled(j) == SamplesIn(j, AnyService)

MetricNames == <<"Average", "Max", "Min", "Median">>
Metric(m, xs) ==
    CASE m = 1 -> _avg(xs) [] m = 2 -> _max(xs) [] m = 3 -> _min(xs) [] m = 4 -> _median(xs)

\* C11: the overall table has the header metric and the versions of the
\* combined header, and exactly the rows Average, Max, Min, Median in that
\* order; each cell is that statistic over the samples of its version pooled
\* over all services, a blank cell being no sample.
C11_OverallTable ==
    ReportRan =>
        /\ stats_out.overall.exists
        /\ stats_out.overall.header = <<MetricWord>> \o VersionsOf
        /\ Len(stats_out.overall.rows) = 4
        /\ \A m \in 1 .. 4 :
              stats_out.overall.rows[m] =
                  <<<<MetricNames[m]>>>> \o
                  [j \in 1 .. Len(VersionsOf) |-> StrOf(Metric(m, Pooled(j)))]

\* Two services and a blank cell: the first version has 7, 7, 10, the
\* second 10, 7 and a blank; both averages are 8, where a blank counted as
\* 0 would give 6 for the second.
C11_Witness ==
    /\ ReportRan
    /\ top_summary.header = <<ServiceWord, <<LabelsInOrder[1]>>, <<LabelsInOrder[2]>>>>
    /\ top_summary.rows = << << <<"X">>, Cell7, Cell10 >>, << <<"Y">>, Cell7, Cell7 >>,
                             << <<"X">>, Cell10, Blank >> >>
    /\ stats_out.overall.rows[1] = << <<"Average">>, <<"8">>, <<"8">> >>

\* The services of the table and the row each is first seen in.
ServicesOf == {top_summary.rows[r][1] : r \in {q \in 1 .. Len(top_summary.rows) :
                                                  top_summary.rows[q] # <<>>}}
FirstRowOf(s) ==
    CHOOSE r \in 1 .. Len(top_summary.rows) :
        /\ top_summary.rows[r] # <<>> /\ top_summary.rows[r][1] = s
        /\ \A q \in 1 .. r - 1 : top_summary.rows[q] = <<>> \/ top_summary.rows[q][1] # s

\* C12: the per-service table has one row per distinct service of the
\* combined table, in first-seen order; for each version it holds avg, max,
\* min, median, in that order, over that service's values for the version,
\* which are 0, 0, 0, 0 when it has none.
C12_PerServiceTable ==
    ReportRan =>
        LET out == stats_out.per_service
        IN  /\ out.exists
            /\ out.header = <<ServiceWord>> \o
                   Flatten([j \in 1 .. Len(VersionsOf) |->
                               <<VersionsOf[j] \o <<"_avg">>, VersionsOf[j] \o <<"_max">>,
                                 VersionsOf[j] \o <<"_min">>, VersionsOf[j] \o <<"_median">>>>])
            /\ {out.rows[k][1] : k \in 1 .. Len(out.rows)} = ServicesOf
            /\ Len(out.rows) = Cardinality(ServicesOf)
            /\ \A k \in 1 .. Len(out.rows) : \A n \in 1 .. k - 1 :
                  FirstRowOf(out.rows[n][1]) < FirstRowOf(out.rows[k][1])
            /\ \A k \in 1 .. Len(out.rows) :
                  LET OfService(s) == s = out.rows[k][1]
                  IN  out.rows[k] = <<out.rows[k][1]>> \o
                          Flatten([j \in 1 .. Len(VersionsOf) |->
                                     <<StrOf(_avg(SamplesIn(j, OfService))),
                                       StrOf(_max(SamplesIn(j, OfService))),
                                       StrOf(_min(SamplesIn(j, OfService))),
                                       StrOf(_median(SamplesIn(j, OfService)))>>])

\* X is seen before Y; X has 7 and 10 in the first version and 10 in the
\* second, Y has no value at all.
C12_Witness ==
    /\ ReportRan
    /\ top_summary.header = <<ServiceWord, <<LabelsInOrder[1]>>, <<LabelsInOrder[2]>>>>
    /\ top_summary.rows = << << <<"X">>, Cell7, Cell10 >>, << <<"Y">>, Blank, Blank >>,
                             << <<"X">>, Cell10, Blank >> >>
    /\ stats_out.per_service.rows =
           << << <<"X">>, <<"8">>, Cell10, Cell7, <<"8">>, Cell10, Cell10, Cell10, Cell10 >>,
              << <<"Y">>, <<"0">>, <<"0">>, <<"0">>, <<"0">>, <<"0">>, <<"0">>, <<"0">>, <<"0">> >> >>

\* webapp.py: the services left out of validation and charts.
EXCLUDED_SERVICES ==
    {<<"EIP2">>, <<"EIP 2">>, <<"Microsoft 365">>, <<"MICROSOFT 365">>, <<"OUTLOOK">>,
     <<"Outlook">>}

NotExcluded(s) == s \notin EXCLUDED_SERVICES

\* C13, as stated: no sample of an excluded service contributes to a cell
\* of the overall table or to a row of the per-service table.
C13_AsStated ==
    ReportRan =>
        /\ \A m \in 1 .. 4 :
              stats_out.overall.rows[m] =
                  <<<<MetricNames[m]>>>> \o
                  [j \in 1 .. Len(VersionsOf) |-> StrOf(Metric(m, SamplesIn(j, NotExcluded)))]
        /\ \A k \in 1 .. Len(stats_out.per_service.rows) :
              NotExcluded(stats_out.per_service.rows[k][1])

(***************************************************************************)
(* Claims about the validator (SpecValidate).                              *)
(***************************************************************************)
\* The trimmed service names of the records and the samples of each.
TrimmedNames == {Strip(n) : n \in {x \in RawNames : melted[x] > 0}}
SamplesOf(s) == SumCounts({n \in RawNames : melted[n] > 0 /\ Strip(n) = s}, melted)

\* The baseline services: those named AUTO TEST in whatever case.
Baselines == {s \in TrimmedNames : Upper(s) = AutoTest}

MismatchWarnings == SelectSeq(verdict.warnings, LAMBDA w : w.kind = "mismatch")
CountWarnings == SelectSeq(verdict.warnings, LAMBDA w : w.kind = "count")

TheBaseline == CHOOSE b \in Baselines : \A o \in Baselines : NameRank(b) <= NameRank(o)
Offenders == {s \in TrimmedNames \ {TheBaseline} : SamplesOf(s) # SamplesOf(TheBaseline)}

\* C16: with the AUTO TEST baseline present there is no error; there is one
\* mismatch warning when some other service has another number of samples
\* than the baseline, and none otherwise; the warning names the baseline's
\* number and lists exactly the offending services, each with its number;
\* with 24 services of equal numbers there is no warning at all.
C16_MismatchWarning ==
    (verdict.called /\ Baselines # {}) =>
        /\ verdict.error = NoError
        /\ Len(MismatchWarnings) = (IF Offenders # {} THEN 1 ELSE 0)
        /\ \A i \in 1 .. Len(MismatchWarnings) :
              /\ MismatchWarnings[i].baseline = SamplesOf(TheBaseline)
              /\ {e.service : e \in Elems(MismatchWarnings[i].list)} = Offenders
              /\ Len(MismatchWarnings[i].list) = Cardinality(Offenders)
              /\ \A e \in Elems(MismatchWarnings[i].list) : e.count = SamplesOf(e.service)
        /\ (Cardinality(TrimmedNames) = RequiredServices /\ Offenders = {}) =>
              verdict.warnings = <<>>

\* 24 services: the baseline with one sample, Mail under two spellings with
\* two samples together, S22 with two, and S01 to S21 with one each; the
\* one warning lists Mail and S22.
C16_Witness ==
    /\ verdict.called
    /\ melted[AutoTest] = 1
    /\ melted[<<"auto test", " ">>] = 0
    /\ melted[<<"Mail">>] = 1
    /\ melted[<<" ", "Mail">>] = 1
    /\ Cardinality(TrimmedNames) = RequiredServices
    /\ verdict.error = NoError
    /\ verdict.warnings =
           <<MismatchWarning(1, <<[service |-> <<"Mail">>, count |-> 2],
                                  [service |-> Filler(22), count |-> 2]>>)>>

(***************************************************************************)
(* Fault isolation in _combine_summaries (SpecCombine).                    *)
(***************************************************************************)
\* A version's summary with its faults taken out: the usable rows under a
\* right header; no row at all for a file that is missing or has no or a
\* wrong header.
Readable(f) == f.exists /\ f.header # <<>> /\ f.header[1] = ServiceWord
Repaired(f) ==
    CsvFile(SummaryHeader, IF Readable(f) THEN SelectSeq(f.rows, IsUsableRow) ELSE <<>>)
RepairedSummaries == [l \in Labels |-> Repaired(summaries[l])]

\* C17: a fault in a version's summary stays where it is: a missing file
\* or one without or with a wrong header gives no values, a short row or
\* one with a non-integer value is skipped alone, and the combined table is
\* what it would be for the same summaries without the faulty files' rows
\* and without the malformed rows.
C17_FaultIsolation ==
    (pc = "combined" /\ ServiceWalk # <<>>) =>
        /\ combined.exists
        /\ combined = _combine_summaries(summary_map, RepairedSummaries, NoFile)

\* One summary under a wrong header, the other with a malformed row before
\* a good one: the table holds the good row's value and a blank column for
\* the faulty version.
C17_Witness ==
    /\ pc = "combined"
    /\ summary_map = LabelsInOrder
    /\ summaries[LabelsInOrder[1]] =
           CsvFile(<<<<"Service">>, <<"loading_time_ms">>>>, << << <<"X">>, Txt100 >> >>)
    /\ summaries[LabelsInOrder[2]] =
           CsvFile(SummaryHeader, << << <<"X">>, <<"a">> >>, << <<"X">>, Txt200 >> >>)
    /\ combined.rows = << << <<"X">>, <<>>, Txt200 >> >>

(***************************************************************************)
(* Further claims about the commands (Spec).                               *)
(***************************************************************************)
\* report.py would exit with a non-zero status on result/summary.csv.
StatsWouldFail == report_main(top_summary, NoStats).rc # 0

\* C18, as stated: when the statistics step fails after the combine step
\* succeeded, the generate run ends by passing on the non-zero exit status
\* of report.py.  The combine step succeeds on a destination without the
\* combined artifact when some version has a parsable sample.
C18_AsStated ==
    (run.op = "generate" /\ ~run.was_built /\ HasSamples /\ StatsWouldFail) =>
        run.outcome = "SystemExit"

\* A dataset without any sample in the files generate_reports would read.
EmptyDataset(d) ==
    /\ data.exists
    /\ data.entry[d] = "logdir"
    /\ AllEntries(logs[d], _determine_pattern(logs[d])) = <<>>

\* What process_dir does on zero samples and otherwise: it returns the
\* number of samples; with none it writes nothing; else the file has the
\* header and one row per sample.
ZeroRowsContract ==
    run.op = "extract" =>
        /\ run.rows = Len(InEncounterOrder(logs[run.dataset], run.pattern))
        /\ run.rows = 0 => (run.outcome = "no_match" /\ ~run.changed)
        /\ run.rows > 0 =>
              /\ log_summary[run.dataset].header = SummaryHeader
              /\ Len(log_summary[run.dataset].rows) = run.rows

\* C19, as stated: process_dir keeps its contract on zero samples, and in a
\* generate run a version with zero samples is no match, not an error, and
\* the run goes on to the other versions.
C19_AsStated ==
    /\ ZeroRowsContract
    /\ (run.op = "generate" /\ ~run.was_built /\ \E d \in Labels : EmptyDataset(d)) =>
           run.outcome \in {"completed", "no_summaries", "SystemExit"}

(***************************************************************************)
(* Claims about the round trip of a summary (SpecRoundTrip).               *)
(***************************************************************************)
\* The durations of a service in the sample list process_dir wrote for d.
Durations(d, service) ==
    LET HasService(e) == e.service = service
        es == SelectSeq(written[d], HasService)
    IN  [i \in 1 .. Len(es) |-> es[i].ms]

\* The cells the combined table holds for a service in the column of d, the
\* blank ones left out, and the values they denote.
ColumnOf(d) == CHOOSE j \in 2 .. Len(combined.header) : combined.header[j] = <<d>>
CellsOf(d, service) ==
    LET rows == RowsOfService(service)
        NotBlank(cell) == cell # <<>>
    IN  SelectSeq([i \in 1 .. Len(rows) |-> rows[i][ColumnOf(d)]], NotBlank)
ReadBack(d, service) ==
    [i \in 1 .. Len(CellsOf(d, service)) |-> PyInt(CellsOf(d, service)[i]).v]

ServicesWritten(d) == {written[d][i].service : i \in 1 .. Len(written[d])}
ServicesCombined == {combined.rows[r][1] : r \in 1 .. Len(combined.rows)}

\* C20: when process_dir has written the summary of a version and the
\* combiner has read it back, the combined table holds that version's
\* samples unchanged and in order: for every service, the values in the
\* version's column are the durations of that service in the written sample
\* list, in the order written, and no service has values the list lacks.
C20_RoundTrip ==
    pc = "recombined" =>
        \A d \in Labels :
            written[d] # <<>> =>
                /\ combined.exists
                /\ \E j \in 2 .. Len(combined.header) : combined.header[j] = <<d>>
                /\ \A service \in ServicesWritten(d) \cup ServicesCombined :
                      /\ \A i \in 1 .. Len(CellsOf(d, service)) :
                            PyInt(CellsOf(d, service)[i]).ok
                      /\ ReadBack(d, service) = Durations(d, service)

\* A version whose written list holds a service twice and a service with
\* the delimiter in its name and a value of two digits, read back.
C20_Witness ==
    /\ pc = "recombined"
    /\ \E d \in Labels :
          /\ Durations(d, <<"a">>) = <<7, 7>>
          /\ Durations(d, <<"a", Comma, "b">>) = <<12>>
          /\ ReadBack(d, <<"a", Comma, "b">>) = <<12>>

(***************************************************************************)
(* Further claims about parse_log_lines (SpecParse).                       *)
(***************************************************************************)
\* What does hold of every entry: the service has no whitespace at either
\* end and the duration is not negative.
TrimmedAndNonNegative ==
    pc = "parsed" =>
        \A i \in 1 .. Len(entries) :
            /\ Strip(entries[i].service) = entries[i].service
            /\ entries[i].ms >= 0

\* C22: every sample the parser produces has a non-empty service name
\* without whitespace at either end and a duration that is not negative; no
\* line produces a sample whose service is the empty string.
C22_AsStated ==
    /\ TrimmedAndNonNegative
    /\ pc = "parsed" => \A i \in 1 .. Len(entries) : entries[i].service # <<>>

(***************************************************************************)
(* Further claims about _combine_summaries (SpecCombine).                  *)
(***************************************************************************)
\* The combined table as a function of the summaries and the set of version
\* labels alone: the services in first-seen order of the walk, for each the
\* rows of C4 with every value in decimal.
IsFirstSeen(i) == FirstAt(ServiceWalk, ServiceWalk[i]) = i
ServicesInOrder ==
    LET firsts == SelectSeq([i \in 1 .. Len(ServiceWalk) |-> i], IsFirstSeen)
    IN  [n \in 1 .. Len(firsts) |-> ServiceWalk[firsts[n]]]

LongestOf(service) ==
    CHOOSE n \in {Len(ValuesOf(l, service)) : l \in MapKeys} :
        \A l \in MapKeys : Len(ValuesOf(l, service)) <= n

ExpectedRows(service) ==
    [i \in 1 .. LongestOf(service) |->
        <<service>> \o
        [k \in 1 .. Len(KeysInOrder) |->
            IF i <= Len(ValuesOf(KeysInOrder[k], service))
            THEN StrOf(ValuesOf(KeysInOrder[k], service)[i]) ELSE <<>>]]

ExpectedCombined ==
    CsvFile(<<ServiceWord>> \o [k \in 1 .. Len(KeysInOrder) |-> <<KeysInOrder[k]>>],
            Flatten([n \in 1 .. Len(ServicesInOrder) |-> ExpectedRows(ServicesInOrder[n])]))

\* C24: the combined output is a function of the contents of the per-version
\* summaries and of the version labels only: whatever the insertion order of
\* the mapping and whatever the output file held before, the file written is
\* the same, and combining again over the unchanged summaries leaves it
\* identical.
C24_Idempotent ==
    (pc = "combined" /\ ServiceWalk # <<>>) =>
        /\ combined = ExpectedCombined
        /\ _combine_summaries(summary_map, summaries, combined) = combined

\* Two versions inserted against their sorted order, both with usable rows.
C24_Witness ==
    /\ pc = "combined"
    /\ summary_map = <<LabelsInOrder[2], LabelsInOrder[1]>>
    /\ \A l \in Labels : UsableOf(l) # <<>>
    /\ Len(combined.rows) >= 2

\* C25: when no version of the mapping has a usable row (every summary is
\* missing, under a wrong header, empty or holds malformed rows only, or the
\* mapping is empty), combining leaves the output file as it was: not
\* created when absent, not changed when there.
C25_NothingEmitted == [][ServiceWalk = <<>> => combined' = combined]_vars

\* A mapping whose only rows are malformed, combined over an older output.
C25_Witness ==
    /\ pc = "combined"
    /\ ServiceWalk = <<>>
    /\ \E l \in MapKeys : summaries[l].exists /\ summaries[l].rows # <<>>
    /\ combined = StaleCombined

(***************************************************************************)
(* Further claims about the commands (Spec): the pattern chosen.           *)
(***************************************************************************)
\* The file names that end with "loading.log", and the samples of the files
\* of a directory so named, in ascending order of name.
EndsWithLoadingLog(n) == n = "a_loading.log"
HasLoadingLog(dir) == \E n \in FileNames : dir[n].exists /\ EndsWithLoadingLog(n)
PatternWanted(dir) == IF HasLoadingLog(dir) THEN "*loading.log" ELSE "*.log"
LoadingSamples(dir) ==
    Flatten([i \in 1 .. Len(FileNamesInOrder) |->
                IF dir[FileNamesInOrder[i]].exists /\ EndsWithLoadingLog(FileNamesInOrder[i])
                THEN parse_log_lines(dir[FileNamesInOrder[i]].lines) ELSE <<>>])

\* C26: the pattern chosen for a log directory is "*loading.log" exactly
\* when the directory holds a file whose name ends with "loading.log", and
\* "*.log" otherwise; and under the pattern chosen for a directory with a
\* loading log the samples come from the loading logs only, whatever other
\* logs lie beside them.
C26_PatternChoice ==
    /\ (run.op = "generate" /\ run.dataset # "") =>
           run.pattern = PatternWanted(logs[run.dataset])
    /\ \A d \in Labels :
          data.entry[d] = "logdir" =>
              /\ _determine_pattern(logs[d]) = PatternWanted(logs[d])
              /\ HasLoadingLog(logs[d]) =>
                    AllEntries(logs[d], _determine_pattern(logs[d])) = LoadingSamples(logs[d])
    /\ (/\ run.op = "extract"
        /\ HasLoadingLog(logs[run.dataset])
        /\ run.pattern = PatternWanted(logs[run.dataset])) =>
           /\ run.rows = Len(LoadingSamples(logs[run.dataset]))
           /\ run.rows > 0 =>
                 log_summary[run.dataset].rows =
                     [i \in 1 .. run.rows |-> RowOf(LoadingSamples(logs[run.dataset])[i])]

\* A generate run that chose "*loading.log" for a directory in which another
\* log with a sample lies beside the loading log.
C26_Witness ==
    /\ run.op = "generate"
    /\ run.dataset # ""
    /\ run.pattern = "*loading.log"
    /\ logs[run.dataset]["b.log"].exists
    /\ parse_log_lines(logs[run.dataset]["b.log"].lines) # <<>>

NumberIn(cell) == PyInt(cell).v

\* Min <= Median <= Max and Min <= Average <= Max.
Ordered(avg, max, min, median) ==
    /\ min <= median /\ median <= max
    /\ min <= avg /\ avg <= max

\* C30: for every non-empty list of samples the minimum is at most the
\* median and the average, and these are at most the maximum; hence the four
\* values written in every column of the overall table and for every version
\* in every row of the per-service table are so ordered.
C30_StatisticsOrdered ==
    ReportRan =>
        /\ \A j \in 1 .. Len(VersionsOf) :
              /\ Pooled(j) # <<>> =>
                    Ordered(_avg(Pooled(j)), _max(Pooled(j)), _min(Pooled(j)),
                            _median(Pooled(j)))
              /\ Ordered(NumberIn(stats_out.overall.rows[1][j + 1]),
                         NumberIn(stats_out.overall.rows[2][j + 1]),
                         NumberIn(stats_out.overall.rows[3][j + 1]),
                         NumberIn(stats_out.overall.rows[4][j + 1]))
        /\ \A k \in 1 .. Len(stats_out.per_service.rows) :
              \A j \in 1 .. Len(VersionsOf) :
                  Ordered(NumberIn(stats_out.per_service.rows[k][4 * j - 2]),
                          NumberIn(stats_out.per_service.rows[k][4 * j - 1]),
                          NumberIn(stats_out.per_service.rows[k][4 * j]),
                          NumberIn(stats_out.per_service.rows[k][4 * j + 1]))

\* A version with 7, 10 and 100: minimum 7, median 10, average 39, maximum
\* 100, all four different.
C30_Witness ==
    /\ ReportRan
    /\ Len(VersionsOf) >= 1
    /\ Pooled(1) = <<7, 10, 100>>
    /\ stats_out.overall.rows[1][2] = <<"3", "9">>
    /\ stats_out.overall.rows[4][2] = <<"1", "0">>

(***************************************************************************)
(* Further claims about the commands (Spec): where the statistics are.     *)
(***************************************************************************)
\* The statistics files are those report.py computes from the combined
\* file of this destination.
StatsOfCombined ==
    /\ stats_out.rc = 0
    /\ stats_out.overall.exists
    /\ stats_out.per_service.exists
    /\ stats_out = report_main(combined, NoStats)

\* C28, as stated: a generate run over a data root with a sample, on a
\* destination without the combined file, returns normally and leaves the
\* combined file and, beside it, the two statistics files computed from it.
C28_AsStated ==
    (run.op = "generate" /\ ~run.was_built /\ HasSamples) =>
        /\ run.outcome = "completed"
        /\ combined.exists
        /\ StatsOfCombined

(***************************************************************************)
(* C21.  merge_data_folders as the specification states it.                *)
(***************************************************************************)
\* The sources the call merges, by their place in the call.
MergedSources == {i \in 1 .. Len(merge.sources) : merge.sources[i].kind = "folder"}
HasFile(i, p) == merge.sources[i].tree[p].kind = "file"
LastWith(p) == CHOOSE i \in MergedSources :
                  HasFile(i, p) /\ \A j \in MergedSources : HasFile(j, p) => j <= i

FirstWith(p) == CHOOSE i \in MergedSources :
                   HasFile(i, p) /\ \A j \in MergedSources : HasFile(j, p) => i <= j
\* The paths at which a source has a file and nothing has a directory.
NoDirAt(p) ==
    /\ merge.before[p].kind # "dir"
    /\ \A i \in MergedSources : merge.sources[i].tree[p].kind # "dir"
FilePaths == {p \in Paths : NoDirAt(p) /\ \E i \in MergedSources : HasFile(i, p)}

\* A file the destination had before and a source has too: skip leaves it,
\* overwrite leaves the text of the last source that has it.
ConflictsSettled ==
    \A p \in FilePaths :
        merge.before[p].kind = "file"
        => merge.dest[p] = (IF merge.overwrite THEN File(Texts[LastWith(p)])
                            ELSE merge.before[p])
\* No file of the destination is gone.
NothingDeleted ==
    \A p \in Paths : merge.before[p].kind = "file" => merge.dest[p].kind = "file"
\* A file of a source at a path where the destination had nothing is at
\* that path afterwards, from the first source that has it; a later source
\* that has it too meets a conflict, settled as above.
ConflictFreeCopied ==
    \A p \in FilePaths :
        merge.before[p].kind = "absent"
        => merge.dest[p] = File(Texts[IF merge.overwrite THEN LastWith(p)
                                      ELSE FirstWith(p)])

\* C21: once a merge has run, every file that was in the destination and is
\* in a merged source is untouched under skip and holds the source's text
\* under overwrite, no file of the destination is gone, and every file of a
\* source without a conflict is in the destination at the same path.
C21_AsStated ==
    pc = "merged" => ConflictsSettled /\ NothingDeleted /\ ConflictFreeCopied

\* What holds of every merge, and what holds of those that end without an error.
C21_Frame == pc = "merged" => NothingDeleted
C21_WhenDone ==
    (pc = "merged" /\ merge.outcome = "done")
    => ConflictsSettled /\ NothingDeleted /\ ConflictFreeCopied
C21_Conflict ==
    /\ pc = "merged" /\ merge.outcome = "done" /\ merge.overwrite
    /\ \E p \in Paths : merge.before[p].kind = "file" /\ merge.dest[p] # merge.before[p]
C21_Raised == pc = "merged" /\ merge.outcome = "FileExistsError"

(***************************************************************************)
(* webapp.py: the dashboard page (_render_dashboard_page) and the bar-data *)
(* endpoint (analytics_bardata) over the result directories.               *)
(*                                                                         *)
(* A number of a frame is a fraction num/den, or NaN.  A frame is the      *)
(* version columns and the rows, each a service name and its cells.        *)
(***************************************************************************)
NaN == [nan |-> TRUE, num |-> 0, den |-> 1]
Rat(num, den) == [nan |-> FALSE, num |-> num, den |-> den]

\* pd.read_csv and pd.to_numeric(errors="coerce") on a cell of the model.
to_numeric(c) ==
    IF c # <<>> /\ \A i \in 1 .. Len(c) : IsDigit(c[i]) THEN Rat(IntOf(c), 1) ELSE NaN

Failed(exc) == [ok |-> FALSE, exc |-> exc, versions |-> <<>>, rows |-> <<>>]
KeptRow(row) == row[1] \notin EXCLUDED_SERVICES
FrameRow(row, n) ==
    [service |-> row[1], cells |-> [i \in 1 .. n |-> to_numeric(row[i + 1])]]
FrameRows(rows, n) ==
    [k \in 1 .. Len(SelectSeq(rows, KeptRow)) |-> FrameRow(SelectSeq(rows, KeptRow)[k], n)]

\* _load_summary: df and version_cols, or the exception raised.
_load_summary(file) ==
    IF ~file.exists THEN Failed("FileNotFoundError")
    ELSE IF file.header = <<>> \/ ServiceWord \notin Elems(file.header) THEN Failed("ValueError")
    ELSE IF Len(file.header) = 1 THEN Failed("ValueError")
    ELSE [ok |-> TRUE, exc |-> "", versions |-> Tail(file.header),
          rows |-> FrameRows(file.rows, Len(file.header) - 1)]

\* The numbers of column i, of all rows or of one service, NaN dropped.
RECURSIVE ColumnValues(_, _)
ColumnValues(rows, i) ==
    IF rows = <<>> THEN <<>>
    ELSE (IF Head(rows).cells[i].nan THEN <<>> ELSE <<Head(rows).cells[i].num>>)
         \o ColumnValues(Tail(rows), i)
RECURSIVE RowsOf(_, _)
RowsOf(rows, s) ==
    IF rows = <<>> THEN <<>>
    ELSE (IF Head(rows).service = s THEN <<Head(rows)>> ELSE <<>>) \o RowsOf(Tail(rows), s)
ServiceValues(rows, s, i) == ColumnValues(RowsOf(rows, s), i)

\* df.melt(...).dropna(): the number of records under each service name.
RECURSIVE TotalNumbers(_, _)
TotalNumbers(rows, n) ==
    IF n = 0 THEN 0 ELSE Len(ColumnValues(rows, n)) + TotalNumbers(rows, n - 1)
FrameServices(rows) == {rows[k].service : k \in 1 .. Len(rows)}
Melt(df) ==
    [s \in FrameServices(df.rows) |-> TotalNumbers(RowsOf(df.rows, s), Len(df.versions))]

\* _prepare_summary: df with melted, or the exception raised.
Prepared(df) ==
    IF IsEmptyFrame(Melt(df)) THEN Failed("ValueError")
    ELSE [ok |-> TRUE, exc |-> "", versions |-> df.versions, rows |-> df.rows]
_prepare_summary(file) ==
    IF ~_load_summary(file).ok THEN _load_summary(file) ELSE Prepared(_load_summary(file))

\* pandas mean, max, min and median of a column (skipna), then .round(2).
Round2(x) == IF x.nan THEN NaN ELSE Rat(Round(100 * x.num, x.den), 100)
Mean(v) == IF v = <<>> THEN NaN ELSE Rat(SumSeq(v), Len(v))
PandasMax(v) == IF v = <<>> THEN NaN ELSE Rat(MaxSeq(v), 1)
PandasMin(v) == IF v = <<>> THEN NaN ELSE Rat(MinSeq(v), 1)
PandasMedian(v) ==
    IF v = <<>> THEN NaN
    ELSE IF Len(v) % 2 = 1 THEN Rat(SortAsc(v)[(Len(v) \div 2) + 1], 1)
    ELSE Rat(SortAsc(v)[Len(v) \div 2] + SortAsc(v)[(Len(v) \div 2) + 1], 2)

\* Lines 527 to 535: the table of the versions.
VersionStats(df) ==
    [i \in 1 .. Len(df.versions) |->
        [Average |-> Round2(Mean(ColumnValues(df.rows, i))),
         Max |-> Round2(PandasMax(ColumnValues(df.rows, i))),
         Min |-> Round2(PandasMin(ColumnValues(df.rows, i))),
         Median |-> Round2(PandasMedian(ColumnValues(df.rows, i)))]]

\* Lines 543 to 563: melted.groupby(["service", "version"]).mean(), pivoted;
\* a service and a version without a number have no entry.
Wide(df) ==
    [sv \in {x \in FrameServices(df.rows) \X (1 .. Len(df.versions)) :
                ServiceValues(df.rows, x[1], x[2]) # <<>>}
        |-> Mean(ServiceValues(df.rows, sv[1], sv[2]))]

\* A figure payload: {} or the figure over the averages.
EmptyFigure == [built |-> FALSE, wide |-> <<>>]
Figure(wide) == [built |-> TRUE, wide |-> wide]

Abort(route, d, status) ==
    [NoPage EXCEPT !.route = route, !.dataset = d, !.status = status]

\* Lines 564 to 595: the bar payload and the text in the bar's place.
BarAlways(checked, wide) == IF DOMAIN wide # {} THEN Figure(wide) ELSE EmptyFigure
BarPayload(checked, wide) ==
    IF DOMAIN wide # {} /\ checked.error = NoError THEN Figure(wide) ELSE EmptyFigure
BarHtml(checked, wide) ==
    IF DOMAIN wide # {} /\ checked.error = NoError THEN "figure"
    ELSE IF checked.error # NoError THEN "error" ELSE "nodata"

Rendered(d, df, checked) ==
    [route |-> "dashboard", dataset |-> d, status |-> 200,
     warnings |-> checked.warnings, error |-> checked.error,
     bar_figure |-> BarPayload(checked, Wide(df)),
     bar_html |-> BarHtml(checked, Wide(df)),
     version_stats |-> VersionStats(df),
     service_avg |-> Wide(df)]

\* _render_dashboard_page for the dataset d.
_render_dashboard_page(d, res) ==
    IF ~_prepare_summary(res.summary).ok \/ ~res.stats.per_service.exists
    THEN Abort("dashboard", d, 404)
    ELSE Rendered(d, _prepare_summary(res.summary),
                  _validate_dataset_requirements(Melt(_prepare_summary(res.summary))))

\* analytics_bardata for the dataset d.
BarData(d, df, checked) ==
    [route |-> "bardata", dataset |-> d, status |-> 200,
     warnings |-> checked.warnings, error |-> checked.error,
     bar_figure |-> BarPayload(checked, Wide(df)),
     bar_html |-> "none", version_stats |-> <<>>, service_avg |-> <<>>]
analytics_bardata(d, res) ==
    IF ~_prepare_summary(res.summary).ok THEN Abort("bardata", d, 404)
    ELSE BarData(d, _prepare_summary(res.summary),
                 _validate_dataset_requirements(Melt(_prepare_summary(res.summary))))

\* The summaries a result directory may hold: none, one without a version
\* column, and those of at most MaxTableRows rows under two versions.
DashRows ==
    { << AutoTest, Cell7, Cell10 >>, << <<"auto test", " ">>, Cell10, Blank >>,
      << <<"Mail">>, Cell7, Cell10 >>, << <<"Mail">>, Cell10, Blank >>,
      << <<"Mail">>, <<"a">>, Blank >>, << <<"OUTLOOK">>, Txt100, Txt100 >> }
DashHeader == <<ServiceWord, <<LabelsInOrder[1]>>, <<LabelsInOrder[2]>>>>
DashTables ==
    {NoFile, CsvFile(<<ServiceWord>>, <<>>)}
    \cup {CsvFile(DashHeader, rows) : rows \in SeqsUpTo(DashRows, MaxTableRows)}
OtherTables ==
    {CsvFile(DashHeader, << << AutoTest, Cell7, Cell10 >> >>),
     CsvFile(DashHeader, << << <<"Mail">>, Cell7, Cell10 >> >>)}

\* What report.py writes from a summary, when it has run on it.
ResultDirs(tables) ==
    UNION {{[summary |-> t, stats |-> s] : s \in {NoStats, report_main(t, NoStats)}} :
              t \in tables}

InitDashboard ==
    /\ \E a \in ResultDirs(DashTables), b \in ResultDirs(OtherTables) :
          results = [d \in ResultNames |-> IF d = "alpha" THEN a ELSE b]
    /\ page = NoPage
    /\ merge = NoMerge
    /\ pc = "serve"
    /\ vals = <<>>
    /\ stat = NoCall
    /\ lines = <<>>
    /\ entries = <<>>
    /\ summary_map = <<>>
    /\ summaries = NoSummaries
    /\ combined = NoFile
    /\ data = NoData
    /\ logs = NoLogs
    /\ log_summary = NoSummaries
    /\ dirs = {}
    /\ interrupted = FALSE
    /\ run = NoRun
    /\ top_summary = NoFile
    /\ stats_out = NoStats
    /\ melted = NoRecords
    /\ verdict = NoVerdict
    /\ disk = NoDisk
    /\ written = NoWritten

\* A request for the dashboard page of a dataset.
Dashboard(d) ==
    /\ pc = "serve"
    /\ page' = _render_dashboard_page(d, results[d])
    /\ UNCHANGED <<stats_vars, parse_vars, combine_vars, pipeline_vars, report_vars,
                   validate_vars, roundtrip_vars, merge, results, pc>>

\* A request for the bar data of a dataset.
BarDataRequest(d) ==
    /\ pc = "serve"
    /\ page' = analytics_bardata(d, results[d])
    /\ UNCHANGED <<stats_vars, parse_vars, combine_vars, pipeline_vars, report_vars,
                   validate_vars, roundtrip_vars, merge, results, pc>>

NextDashboard ==
    \/ \E d \in ResultNames : Dashboard(d)
    \/ \E d \in ResultNames : BarDataRequest(d)

SpecDashboard == InitDashboard /\ [][NextDashboard]_vars

(***************************************************************************)
(* C23.  The numbers of the dashboard page against the statistics files.   *)
(***************************************************************************)
\* The number x is the whole number a cell of a statistics file holds.
IsStored(x, cell) == ~x.nan /\ x.num = IntOf(cell) * x.den

\* The row of summary_stats.csv under a metric, and the row of
\* service_stats.csv of a service.
MetricRow(file, k) == file.rows[k]
StoredServiceRow(file, s) == file.rows[CHOOSE k \in 1 .. Len(file.rows) : file.rows[k][1] = s]

VersionStatsStored(shown, overall) ==
    \A i \in 1 .. Len(shown) :
        /\ IsStored(shown[i].Average, MetricRow(overall, 1)[i + 1])
        /\ IsStored(shown[i].Max, MetricRow(overall, 2)[i + 1])
        /\ IsStored(shown[i].Min, MetricRow(overall, 3)[i + 1])
        /\ IsStored(shown[i].Median, MetricRow(overall, 4)[i + 1])
ServiceAveragesStored(shown, per_service) ==
    \A sv \in DOMAIN shown :
        IsStored(shown[sv], StoredServiceRow(per_service, sv[1])[4 * (sv[2] - 1) + 2])

\* C23: on every dashboard page that is rendered, the Average, Max, Min and
\* Median of each version are the values of summary_stats.csv, and the
\* average of each service and version is the value of service_stats.csv.
C23_AsStated ==
    (page.route = "dashboard" /\ page.status = 200)
    => /\ VersionStatsStored(page.version_stats, results[page.dataset].stats.overall)
       /\ ServiceAveragesStored(page.service_avg, results[page.dataset].stats.per_service)

\* A page whose numbers all are the stored ones, and the parts of the claim.
C23_Agreeing ==
    /\ page.route = "dashboard" /\ page.status = 200
    /\ VersionStatsStored(page.version_stats, results[page.dataset].stats.overall)
    /\ ServiceAveragesStored(page.service_avg, results[page.dataset].stats.per_service)
C23_VersionPart ==
    (page.route = "dashboard" /\ page.status = 200)
    => VersionStatsStored(page.version_stats, results[page.dataset].stats.overall)
C23_ServicePart ==
    (page.route = "dashboard" /\ page.status = 200)
    => ServiceAveragesStored(page.service_avg, results[page.dataset].stats.per_service)

(***************************************************************************)
(* C27.  A fatal error of the validator and the bar figure.                *)
(***************************************************************************)
\* What the validator says of the dataset d, when its summary can be read.
Served(d) == _prepare_summary(results[d].summary).ok
DatasetVerdict(d) ==
    _validate_dataset_requirements(Melt(_prepare_summary(results[d].summary)))
HasFatalError(d) == Served(d) /\ DatasetVerdict(d).error # NoError
OtherDatasets(d) == ResultNames \ {d}

\* C27: on the dashboard page and on the bar-data endpoint alike, when the
\* validator returns a fatal error for the dataset asked for, the bar figure
\* payload is empty and the error is in the answer; when it returns none,
\* with warnings or without, the figure is built, whatever the validator
\* says of the other datasets.
C27_ErrorBlocksBar ==
    (page.route \in {"dashboard", "bardata"} /\ page.status = 200)
    => /\ page.error = DatasetVerdict(page.dataset).error
       /\ page.warnings = DatasetVerdict(page.dataset).warnings
       /\ HasFatalError(page.dataset)
             => /\ page.bar_figure = EmptyFigure
                /\ page.route = "dashboard" => page.bar_html = "error"
       /\ ~HasFatalError(page.dataset)
             => /\ page.bar_figure = Figure(Wide(_prepare_summary(results[page.dataset].summary)))
                /\ page.bar_figure.wide # <<>>

\* The bar-data endpoint answers for a dataset with a fatal error while
\* another dataset has none.
C27_Witness ==
    /\ page.route = "bardata" /\ page.status = 200
    /\ page.error = MissingAutoTest
    /\ page.bar_figure = EmptyFigure
    /\ \E d \in OtherDatasets(page.dataset) : Served(d) /\ ~HasFatalError(d)

\* Further cases of C27: the page of a dataset with a fatal error; a figure
\* built under warnings only; a figure built while another dataset has a
\* fatal error.
C27_PageError ==
    /\ page.route = "dashboard" /\ page.status = 200
    /\ page.error = MissingAutoTest /\ page.bar_html = "error"
    /\ page.bar_figure = EmptyFigure
C27_WarningsOnly ==
    /\ page.status = 200 /\ page.error = NoError /\ Len(page.warnings) = 2
    /\ page.bar_figure.built
C27_OtherHasError ==
    /\ page.status = 200 /\ page.bar_figure.built
    /\ \E d \in OtherDatasets(page.dataset) : HasFatalError(d)

====
